---- MODULE Spec2Model ----
(***************************************************************************)
(* A model of goxec: the HTTP ingress with its token-bucket rate limiter,  *)
(* the Redis job stream (consumer group, pending list, recovery routine),  *)
(* the worker process (subscriber, dispatcher, pool workers, result        *)
(* goroutines), the Docker runner and the log bus.                         *)
(*                                                                         *)
(* Specifications:                                                         *)
(*   Spec         the whole pipeline, the limiter's verdict being an input *)
(*   SpecDeadline Spec with the time a worker spends inside Run            *)
(*   SpecRun      Client.Run called with any context (not only the pool's) *)
(*   SpecLimiter  the rate limiter alone, with the clock and the reaper    *)
(*   SpecBurst    SpecLimiter, the calls of one burst being counted        *)
(*   SpecIngress  the submit handler behind the limiter, one address       *)
(*   SpecPool     the worker pool and one caller: Submit, results, Stop    *)
(*   SpecGate     handleWS and broadcastLogs, results published at will    *)
(*   SpecDelivery Spec together with the gate and the client's session     *)
(*   SpecBuffer   limitedBuffer.Write on the stdout and stderr buffers     *)
(*   SpecForeign  Spec with entries of other writers on the job stream     *)
(*   SpecSubscribe Spec with read errors and cancellation of the listener  *)
(*   SpecBacklog  the feed from the stream to the pool, jobs never ending  *)
(*   SpecGetClient concurrent getClient calls for one address              *)
(*   SpecCopy     SpecBuffer, the bytes a buffer did not store recorded    *)
(*   SpecWait     Client.Run from ContainerStart to the log capture        *)
(*   SpecShutdown the worker process from boot to the end of main          *)
(*   SpecReap     Allow in its critical sections against the reaper's pass *)
(*   SpecLocks    rl.mu and the bucket locks, Allow callers and the reaper *)
(*   SpecLocksFair SpecLocks under a fair scheduler                        *)
(*   SpecHandoff  Submit, the pool workers and the result goroutines       *)
(*   SpecHandoffFair SpecHandoff under a fair scheduler                    *)
(*   SpecMiddleware the key RateLimitMiddleware gives to Allow, two        *)
(*                request sequences of one remote host side by side        *)
(***************************************************************************)
EXTENDS Integers, Sequences, FiniteSets, TLC

VARIABLES
    \* ---- rate limiter (internal/platform/web/ratelimit.go)
    rate,        \* RateLimiter.rate, in hundredths of a token per second
    capacity,    \* RateLimiter.capacity, in hundredths of a token
    clients,     \* RateLimiter.clients: address -> [tokens, lastRefill]
    now,         \* the monotonic clock time.Now() reads, in seconds
    advances,    \* how many times the clock has advanced (bounded)
    lastCleanup, \* clock reading at the end of the reaper's last sleep
    lastState,   \* per address: the bucket state its last Allow call left
    lastAllow,   \* the last Allow call: address, tokens it decided on, result
    burst,       \* the running sequence of Allow calls of one address at one instant
    \* ---- ingress (cmd/server/main.go)
    issued,      \* job ids (uuid.New()) answered "queued" so far
    lastResp,    \* the response to the last request SpecIngress served
    \* ---- job stream (internal/platform/queue/redis.go)
    stream,      \* the entries of goxec:jobs, in order; entry id = index
    group,       \* group goxec:workers: whether it exists, its last-delivered id
    pel,         \* pending list: entry id -> [owner, count, stale, lost]
    acked,       \* entry id -> who removed it from the pending list
    dlq,         \* entry ids written to goxec:jobs:dead
    recClaimed,  \* entries the recovery pass claimed and has not yet XAck'ed
    bus,         \* messages published on goxec:logs, in order
    \* ---- worker process (cmd/worker/main.go, internal/worker)
    proc,        \* "down" or "up"
    subMsg,      \* job the subscriber goroutine holds for its send on outCh
    dispJob,     \* job the dispatch goroutine holds for pool.Submit
    tasksCh,     \* Pool.tasksCh, a channel buffered to `concurrency`
    wk,          \* pool worker -> [pc, job, ctx, ctr, res, elapsed]
    rg,          \* job id -> the state of its result goroutine
    ran,         \* entry id -> times Runner.Run returned for it
    pool,        \* Pool as its caller sees it: channel closed, Stop, jobs accepted, results
    \* ---- session gate (cmd/server/main.go: clientHub, handleWS, broadcastLogs)
    hub,         \* clientHub: job id -> connection
    sess,        \* connection -> [job, open, recv]
    gate,        \* broadcastLogs: position on the bus, message and connection in hand
    \* ---- log capture (internal/platform/docker/client.go: limitedBuffer)
    logLimit,    \* limitedBuffer.limit
    stdoutBuf,   \* the stdout buffer: [len, marked]
    stderrBuf,   \* the stderr buffer: [len, marked]
    dropped,     \* per stream: whether a byte handed to its buffer was not stored
    \* ---- Subscribe's listener goroutine (internal/platform/queue/redis.go)
    subCtl,      \* [pc, cancelled]: where the goroutine is, whether ctx is done
    \* ---- concurrent getClient calls (internal/platform/web/ratelimit.go)
    gc,          \* the map as pointers, buckets created, each call's position
    \* ---- the wait select of Client.Run (internal/platform/docker/client.go)
    sel,         \* Run call -> which of statusCh, errCh, ctx.Done() are ready, the outcome
    \* ---- the limiter's locks (internal/platform/web/ratelimit.go)
    lk,          \* rl.mu, each Client's mu, the map, and where each goroutine is
    \* ---- RateLimitMiddleware's key (internal/platform/web/ratelimit.go)
    hdr          \* two request sequences of one remote host, their buckets and verdicts

rlVars == <<rate, capacity, clients, now, advances, lastCleanup, lastState, lastAllow, burst>>
gateVars == <<issued, lastResp>>
queueVars == <<stream, group, pel, acked, dlq, recClaimed, bus>>
workerVars == <<proc, subMsg, dispJob, tasksCh, wk, rg, ran>>
poolVars == <<pool>>
hubVars == <<hub, sess, gate>>
bufVars == <<logLimit, stdoutBuf, stderrBuf, dropped>>
subVars == <<subCtl>>
gcVars == <<gc>>
selVars == <<sel>>
lkVars == <<lk>>
hdrVars == <<hdr>>
otherVars == <<poolVars, hubVars, bufVars, subVars, gcVars, selVars, lkVars, hdrVars>>
vars == <<rlVars, gateVars, queueVars, workerVars, otherVars>>

Min(a, b) == IF a <= b THEN a ELSE b

(***************************************************************************)
(* Rate limiter.  Tokens are fixed-point, in hundredths: the 1.0 that      *)
(* Allow compares with and subtracts is OneToken.                          *)
(***************************************************************************)
OneToken == 100
DefaultRate == 50
DefaultCapacity == 500
visitorTimeout == 180
cleanupInterval == 60

\* The rates and capacities NewRateLimiter is explored with, the delays the
\* clock advances by, the remote addresses, and the number of advances.
Rates == {1, DefaultRate}
Capacities == {200, DefaultCapacity}
Delays == {1, cleanupInterval + 1, visitorTimeout + 1}
Addrs == {"a1", "a2"}
MaxAdvances == 2

NoState == [tokens |-> -1, lastRefill |-> -1]
NoAllow == [ip |-> "none", seen |-> 0, ok |-> FALSE, at |-> 0, had |-> NoState]
NoBurst == [ip |-> "none", at |-> 0, calls |-> 0, admits |-> 0, had |-> NoState]

\* getClient: the bucket of ip, created full at the current clock reading
\* when the map has none (fast path and double-checked slow path).
NewClient(t) == [tokens |-> capacity, lastRefill |-> t]
getClient(cl, ip, t) ==
    IF ip \in DOMAIN cl THEN cl ELSE (ip :> NewClient(t)) @@ cl

\* The refill without its cap at capacity.
RefillUncapped(c, t) ==
    LET elapsed == t - c.lastRefill
        tokensToAdd == elapsed * rate
    IN  IF tokensToAdd > 0
        THEN [tokens |-> c.tokens + tokensToAdd, lastRefill |-> t]
        ELSE c

\* Allow, step 1: lazy refill.
Refill(c, t) ==
    LET elapsed == t - c.lastRefill
        tokensToAdd == elapsed * rate
    IN  IF tokensToAdd > 0
        THEN [tokens |-> Min(c.tokens + tokensToAdd, capacity), lastRefill |-> t]
        ELSE c

\* Allow, step 2: consume.
Admits(c) == c.tokens >= OneToken
Consume(c) == IF Admits(c) THEN [c EXCEPT !.tokens = @ - OneToken] ELSE c

\* Allow(ip) at clock reading t: the map afterwards, and the result.
AllowMap(cl, ip, t) ==
    LET m == getClient(cl, ip, t)
    IN  [m EXCEPT ![ip] = Consume(Refill(m[ip], t))]
AllowResult(cl, ip, t) == Admits(Refill(getClient(cl, ip, t)[ip], t))

\* The calls of one address at one clock reading, counted from the first of
\* them: how many there were (followed up to one past the whole tokens a
\* bucket can hold), how many were admitted, and the bucket state the
\* address had been left in before the first.
NextBurst(ip, ok) ==
    IF burst.ip = ip /\ burst.at = now
    THEN [burst EXCEPT !.calls = Min(@ + 1, (capacity \div OneToken) + 1),
                       !.admits = @ + (IF ok THEN 1 ELSE 0)]
    ELSE [ip |-> ip, at |-> now, calls |-> 1, admits |-> IF ok THEN 1 ELSE 0,
          had |-> lastState[ip]]

\* One call of Allow, with the record of what it saw.
Allow(ip) ==
    /\ clients' = AllowMap(clients, ip, now)
    /\ lastState' = [lastState EXCEPT ![ip] = clients'[ip]]
    /\ lastAllow' = [ip |-> ip,
                     seen |-> Refill(getClient(clients, ip, now)[ip], now).tokens,
                     ok |-> AllowResult(clients, ip, now),
                     at |-> now,
                     had |-> lastState[ip]]

\* The reaper's test, were every bucket taken for idle.
ExpiredAlways(c, t) == TRUE

\* cleanupVisitors: one pass, after a sleep of cleanupInterval.
Expired(c, t) == t - c.lastRefill > visitorTimeout
cleanupVisitors ==
    /\ now - lastCleanup >= cleanupInterval
    /\ lastCleanup' = now
    /\ clients' = [ip \in {a \in DOMAIN clients : ~Expired(clients[a], now)} |-> clients[ip]]
    /\ UNCHANGED <<rate, capacity, now, advances, lastState, lastAllow, burst>>
    /\ UNCHANGED <<gateVars, queueVars, workerVars, otherVars>>

AdvanceClock ==
    /\ advances < MaxAdvances
    /\ \E d \in Delays : now' = now + d
    /\ advances' = advances + 1
    /\ UNCHANGED <<rate, capacity, clients, lastCleanup, lastState, lastAllow, burst>>
    /\ UNCHANGED <<gateVars, queueVars, workerVars, otherVars>>

AllowCall ==
    /\ \E ip \in Addrs : Allow(ip)
    /\ UNCHANGED <<rate, capacity, now, advances, lastCleanup, burst>>
    /\ UNCHANGED <<gateVars, queueVars, workerVars, otherVars>>

(***************************************************************************)
(* Pipeline: bounds and program constants.                                 *)
(***************************************************************************)
MaxJobs == 1         \* entries the stream holds
MaxRetries == 2      \* the retry limit of the specification (the source has none)
MaxElapsed == 2      \* cap on the time a worker is followed inside Run
JobDeadline == 1     \* the execution deadline of the specification (the source sets none)
concurrency == 3     \* cmd/worker/main.go: pool size

\* Delivery counts are followed up to one past the retry limit.
MaxDeliveries == MaxRetries + 1

JobIds == (MaxJobs + 1)..(2 * MaxJobs)
EntryIds == 1..MaxJobs
Workers == 1..concurrency

NoJob == [id |-> 0, raw |-> 0]
IdleWorker == [pc |-> "idle", job |-> NoJob, ctx |-> "none", ctr |-> "none",
               res |-> "none", elapsed |-> 0]
NoGoroutine == [pc |-> "none", job |-> NoJob, res |-> "none", bc |-> "none", ack |-> "none"]

NoResp == [status |-> "none", job |-> 0]
NoPool == [closed |-> FALSE, stop |-> "none", accepted |-> 0, delivered |-> {}]
MaxConns == 2        \* WebSocket connections followed
Conns == 1..MaxConns
NoSession == [job |-> 0, open |-> FALSE, recv |-> {}]
IdleGate == [pc |-> "recv", next |-> 1, msg |-> 0, conn |-> 0]
NoSubscriber == [pc |-> "none", cancelled |-> FALSE]
MaxCalls == 4           \* concurrent getClient calls for one address
Calls == 1..MaxCalls
NoBucket == 0           \* no *Client: the address has no entry in rl.clients
NoCalls ==
    [map |-> NoBucket, made |-> 0, heap |-> <<>>,
     call |-> [r \in Calls |-> [pc |-> "none", missed |-> FALSE, c |-> NoBucket,
                                ok |-> FALSE, at |-> 0, orphan |-> FALSE]]]
MaxLockers == 2         \* concurrent Allow calls whose locking is followed
Lockers == 1..MaxLockers
Free == 0               \* a mutex nobody holds
Reaper == MaxLockers + 1   \* the cleanupVisitors goroutine as a lock holder
NoLocks ==
    [w |-> Free, rd |-> {}, map |-> [a \in Addrs |-> NoBucket], mu |-> <<>>,
     al |-> [g \in Lockers |-> [pc |-> "none", ip |-> "none", c |-> NoBucket]],
     rp |-> [pc |-> "sleep", todo |-> {}, ip |-> "none"]]
NoStatus == 0 - 1       \* statusCh holds no value
NoSelect ==
    [pc |-> "none", ctx |-> "background", status |-> NoStatus, err |-> FALSE,
     done |-> FALSE, first |-> "none", taken |-> "none", res |-> "none"]
MaxRuns == 2            \* Run calls in progress at once
Runs == 1..MaxRuns
NoSelects == [r \in Runs |-> NoSelect]
maxLogSize == 1048576   \* const maxLogSize = 1 * 1024 * 1024
MarkerLen == 16         \* len("\n<LOG TRUNCATED>")
EmptyBuffer == [len |-> 0, marked |-> FALSE]
NothingDropped == [stdout |-> FALSE, stderr |-> FALSE]

\* What a request body decodes to: not JSON, a field empty, or well-formed.
Bodies == {"badjson", "empty", "ok"}

(***************************************************************************)
(* Ingress: RateLimitMiddleware(handleSubmit(q)), one whole request.       *)
(***************************************************************************)
\* Publish, were its XADD issued twice.
PublishTwice(s, jobID) == Append(Append(s, jobID), jobID)

\* RedisQueue.Publish: XADD appends one entry holding the marshalled job.
Publish(s, jobID) == Append(s, jobID)

\* The status handleSubmit answers with, once the limiter admitted the request.
handleSubmitStatus(body, pubOk) ==
    IF body # "ok" THEN "400"
    ELSE IF ~pubOk THEN "500"
    ELSE "queued"

\* uuid.New(): an id no earlier request was given.  Job ids and stream entry
\* ids are kept apart: entries are 1..MaxJobs, job ids lie above them.
NewJobID == MaxJobs + Cardinality(issued) + 1

\* handleSubmit's effect on the stream, and the ids it answered "queued" with.
handleSubmit(jobID, body, pubOk) ==
    LET status == handleSubmitStatus(body, pubOk)
    IN  /\ stream' = IF status = "queued" THEN Publish(stream, jobID) ELSE stream
        /\ issued' = IF status = "queued" THEN issued \cup {jobID} ELSE issued

\* RateLimitMiddleware, were the wrapped handler called whatever Allow said.
RateLimitMiddlewareOpen(allowed, jobID, body, pubOk) == handleSubmit(jobID, body, pubOk)

\* RateLimitMiddleware: `allowed` is what rl.Allow(ip) returned.
RateLimitMiddleware(allowed, jobID, body, pubOk) ==
    IF allowed
    THEN handleSubmit(jobID, body, pubOk)
    ELSE UNCHANGED <<stream, issued>>

\* The response of RateLimitMiddleware(handleSubmit(q)).
Response(allowed, jobID, body, pubOk) ==
    LET status == IF allowed THEN handleSubmitStatus(body, pubOk) ELSE "429"
    IN  [status |-> status, job |-> IF status = "queued" THEN jobID ELSE 0]

\* One POST /api/run, the limiter's verdict being an input (SpecLimiter
\* explores the limiter itself).  The ids answered "queued" are recorded.
\* Requests are followed until the stream holds MaxJobs entries.
SubmitRequest ==
    /\ Len(stream) < MaxJobs
    /\ \E allowed \in BOOLEAN, body \in Bodies, pubOk \in BOOLEAN :
         RateLimitMiddleware(allowed, NewJobID, body, pubOk)
    /\ UNCHANGED <<group, pel, acked, dlq, recClaimed, bus>>
    /\ UNCHANGED <<lastResp, workerVars, rlVars, otherVars>>

\* One POST /api/run of one address, the verdict being the limiter's own:
\* rl.Allow(ip), then 429 or the wrapped handler.
RemoteAddr == "a1"
IngressRequest ==
    /\ Len(stream) < MaxJobs
    /\ Allow(RemoteAddr)
    /\ \E body \in Bodies, pubOk \in BOOLEAN :
         LET allowed == AllowResult(clients, RemoteAddr, now)
         IN  /\ RateLimitMiddleware(allowed, NewJobID, body, pubOk)
             /\ lastResp' = Response(allowed, NewJobID, body, pubOk)
    /\ UNCHANGED <<rate, capacity, now, advances, lastCleanup, burst>>
    /\ UNCHANGED <<group, pel, acked, dlq, recClaimed, bus>>
    /\ UNCHANGED <<workerVars, otherVars>>

(***************************************************************************)
(* Worker process start: NewPool, Start, Subscribe.                        *)
(***************************************************************************)
\* XGroupCreateMkStream(stream, group, "$"): a new group starts after the
\* entries the stream holds now; BUSYGROUP (the group exists) is ignored.
XGroupCreate(g, s) == IF g.exists THEN g ELSE [exists |-> TRUE, last |-> Len(s)]

\* Subscribe's listener goroutine right after `go func()`: in its loop, the
\* context not cancelled.
Listening == [pc |-> "run", cancelled |-> FALSE]

WorkerBoot ==
    /\ proc = "down"
    /\ proc' = "up"
    /\ group' = XGroupCreate(group, stream)
    /\ subCtl' = Listening
    /\ UNCHANGED <<subMsg, dispJob, tasksCh, wk, rg, ran>>
    /\ UNCHANGED <<stream, pel, acked, dlq, recClaimed, bus>>
    /\ UNCHANGED <<rlVars, gateVars, poolVars, hubVars, bufVars, gcVars, selVars, lkVars, hdrVars>>

\* The process is killed: every goroutine and channel of it is gone; the
\* stream, the pending list and the bus history stay.  `lost` marks the
\* pending entries whose consumer died before acknowledging them.
WorkerCrash ==
    /\ proc = "up"
    /\ proc' = "down"
    /\ subMsg' = NoJob
    /\ dispJob' = NoJob
    /\ tasksCh' = <<>>
    /\ wk' = [w \in Workers |-> IdleWorker]
    /\ rg' = [j \in JobIds |-> NoGoroutine]
    /\ pel' = [e \in DOMAIN pel |-> [pel[e] EXCEPT !.lost = TRUE]]
    /\ subCtl' = NoSubscriber
    /\ UNCHANGED <<ran, stream, group, acked, dlq, recClaimed, bus>>
    /\ UNCHANGED <<rlVars, gateVars, poolVars, hubVars, bufVars, gcVars, selVars, lkVars, hdrVars>>

(***************************************************************************)
(* Subscribe's listener goroutine and the dispatch goroutine.              *)
(***************************************************************************)
\* XReadGroup, were it given "0": the consumer's pending entries come again.
XReadGroupPending(g) == IF g.last > 0 THEN g.last ELSE 1

\* XReadGroup(group, consumer, ">", Count 1): the next never-delivered entry
\* enters the pending list under this consumer with delivery count 1.
XReadGroupNext(g) == g.last + 1

\* The values of a stream entry.  A positive number is a `job` field holding
\* the JSON of the job with that id; the others are what any other writer of
\* the stream can leave: no `job` field, a `job` field that is not a
\* string, a string that is not the JSON of a job.
NoJobField == 0
JobNotString == 0 - 1
JobNotJSON == 0 - 2
Malformed == {NoJobField, JobNotString, JobNotJSON}

\* val, ok := msg.Values["job"].(string); json.Unmarshal(val, &job);
\* job.RawID = msg.ID.  NoJob: the message is logged and skipped.
Decode(v, e) ==
    IF v \in {NoJobField, JobNotString} THEN NoJob
    ELSE IF v = JobNotJSON THEN NoJob
    ELSE [id |-> v, raw |-> e]

SubscribeRead ==
    /\ proc = "up"
    /\ subCtl = Listening
    /\ subMsg = NoJob
    /\ group.exists
    /\ XReadGroupNext(group) <= Len(stream)
    /\ LET e == XReadGroupNext(group)
       IN  /\ group' = [group EXCEPT !.last = e]
           /\ pel' = (e :> [owner |-> "worker", count |-> 1, stale |-> FALSE, lost |-> FALSE]) @@ pel
           /\ subMsg' = Decode(stream[e], e)
    /\ UNCHANGED <<stream, acked, dlq, recClaimed, bus>>
    /\ UNCHANGED <<proc, dispJob, tasksCh, wk, rg, ran>>
    /\ UNCHANGED <<rlVars, gateVars, otherVars>>

\* XReadGroup fails with a broker error while ctx is live: the error is
\* logged and the goroutine sleeps one second before it polls again.
SubscribeReadError ==
    /\ proc = "up"
    /\ subCtl = Listening
    /\ subMsg = NoJob
    /\ subCtl' = [subCtl EXCEPT !.pc = "sleep"]
    /\ UNCHANGED <<queueVars, workerVars, rlVars, gateVars>>
    /\ UNCHANGED <<poolVars, hubVars, bufVars, gcVars, selVars, lkVars, hdrVars>>

\* time.Sleep(1 * time.Second) returns.
SubscribeWake ==
    /\ subCtl.pc = "sleep"
    /\ subCtl' = [subCtl EXCEPT !.pc = "run"]
    /\ UNCHANGED <<queueVars, workerVars, rlVars, gateVars>>
    /\ UNCHANGED <<poolVars, hubVars, bufVars, gcVars, selVars, lkVars, hdrVars>>

\* The context given to Subscribe is cancelled (main: cancel()).
SubscribeCancel ==
    /\ subCtl.pc \in {"run", "sleep"}
    /\ ~subCtl.cancelled
    /\ subCtl' = [subCtl EXCEPT !.cancelled = TRUE]
    /\ UNCHANGED <<queueVars, workerVars, rlVars, gateVars>>
    /\ UNCHANGED <<poolVars, hubVars, bufVars, gcVars, selVars, lkVars, hdrVars>>

\* The goroutine sees the cancellation, at `case <-ctx.Done()` or through
\* the error of an XReadGroup under the cancelled context, and returns: the
\* deferred close(outCh) runs.  It is at neither place while it is inside
\* `outCh <- job`.
SubscribeReturn ==
    /\ subCtl.pc = "run"
    /\ subCtl.cancelled
    /\ subMsg = NoJob
    /\ subCtl' = [subCtl EXCEPT !.pc = "closed"]
    /\ UNCHANGED <<queueVars, workerVars, rlVars, gateVars>>
    /\ UNCHANGED <<poolVars, hubVars, bufVars, gcVars, selVars, lkVars, hdrVars>>

\* outCh is unbuffered: the listener's send and the dispatcher's receive
\* (for job := range jobsCh) are one step.
DispatchReceive ==
    /\ proc = "up"
    /\ subMsg # NoJob
    /\ dispJob = NoJob
    /\ dispJob' = subMsg
    /\ subMsg' = NoJob
    /\ UNCHANGED <<proc, tasksCh, wk, rg, ran>>
    /\ UNCHANGED <<queueVars, rlVars, gateVars, otherVars>>

\* pool.Submit(job) blocks while tasksCh is full; the result goroutine is
\* spawned right after it returns.
Submit(ch, job) == Append(ch, job)

\* A send on tasksCh, were the channel never full.
CanSendAlways(ch) == TRUE

\* tasksCh: make(chan domain.Job, concurrency): a send completes while the
\* buffer holds fewer than `concurrency` jobs.
CanSend(ch) == Len(ch) < concurrency

DispatchSubmit ==
    /\ proc = "up"
    /\ dispJob # NoJob
    /\ ~pool.closed
    /\ CanSend(tasksCh)
    /\ tasksCh' = Submit(tasksCh, dispJob)
    /\ rg' = [rg EXCEPT ![dispJob.id] = [NoGoroutine EXCEPT !.pc = "recv", !.job = dispJob]]
    /\ dispJob' = NoJob
    /\ UNCHANGED <<proc, subMsg, wk, ran>>
    /\ UNCHANGED <<queueVars, rlVars, gateVars, otherVars>>

(***************************************************************************)
(* Client.Run (internal/platform/docker/client.go).  A worker's pc:        *)
(*   "idle"  waiting on tasksCh                                            *)
(*   "run"   inside Run, before ContainerCreate has returned               *)
(*   "wait"  inside Run, the container created and its removal deferred    *)
(*   "send"  Run has returned; sending the result on job.ResultCh          *)
(* A context is "background" (never done) or "cancellable" (a deadline or  *)
(* a cancel may end it at any moment).                                     *)
(***************************************************************************)
CtxKinds == {"background", "cancellable"}

\* Pool.worker: ctx := context.Background()
WorkerCtx == "background"

\* How Run can end before the container exists.
CreateOutcomes == {"pullFailed", "createFailed", "created"}

\* How Run can end once the container exists: ContainerStart fails, the wait
\* select takes errCh, statusCh or ctx.Done(), ContainerLogs fails, StdCopy
\* fails, or everything succeeds.  ctx.Done() needs a context that can end.
ExitPaths(ctx) ==
    {"startFailed", "waitError", "logsFailed", "demuxFailed", "ok"}
        \cup (IF ctx = "cancellable" THEN {"timeout"} ELSE {})

\* The deferred removal, were it called with Run's own context.
RemoveCtxJob(jobCtx) == jobCtx

\* The context the deferred ContainerRemove is called with.
RemoveCtx(jobCtx) == "background"

\* The deferred ContainerRemove(ctx, id, Force): a call under a context that
\* is already done (Run left through ctx.Done()) fails in the client and
\* removes nothing.
ContainerRemove(rmCtx, path) ==
    IF rmCtx = "cancellable" /\ path = "timeout" THEN "leaked" ELSE "removed"

\* Runs are counted per stream entry; a job handed to the pool by a caller
\* other than the subscriber (RawID unset) came from none.
Ran(w) ==
    IF wk[w].job.raw \in DOMAIN ran
    THEN [ran EXCEPT ![wk[w].job.raw] = Min(@ + 1, MaxDeliveries)]
    ELSE ran

RunCreate(w) ==
    /\ wk[w].pc = "run"
    /\ \E out \in CreateOutcomes :
         IF out = "created"
         THEN /\ wk' = [wk EXCEPT ![w].pc = "wait", ![w].ctr = "created"]
              /\ UNCHANGED ran
         ELSE /\ wk' = [wk EXCEPT ![w].pc = "send", ![w].res = out]
              /\ ran' = Ran(w)
    /\ UNCHANGED <<proc, subMsg, dispJob, tasksCh, rg>>
    /\ UNCHANGED <<queueVars, rlVars, gateVars, otherVars>>

RunFinish(w) ==
    /\ wk[w].pc = "wait"
    /\ \E path \in ExitPaths(wk[w].ctx) :
         wk' = [wk EXCEPT ![w].pc = "send",
                          ![w].res = path,
                          ![w].ctr = ContainerRemove(RemoveCtx(wk[w].ctx), path)]
    /\ ran' = Ran(w)
    /\ UNCHANGED <<proc, subMsg, dispJob, tasksCh, rg>>
    /\ UNCHANGED <<queueVars, rlVars, gateVars, otherVars>>

\* Time passes while a worker is inside Run with its container created.  The
\* wait select leaves through ctx.Done() once a context's deadline is
\* reached; a background context has none.
Tick(w) ==
    /\ wk[w].pc = "wait"
    /\ wk[w].elapsed < MaxElapsed
    /\ wk[w].ctx = "cancellable" => wk[w].elapsed < JobDeadline
    /\ wk' = [wk EXCEPT ![w].elapsed = @ + 1]
    /\ UNCHANGED <<proc, subMsg, dispJob, tasksCh, rg, ran>>
    /\ UNCHANGED <<queueVars, rlVars, gateVars, otherVars>>

(***************************************************************************)
(* Pool.worker (internal/worker) and the result goroutine of main.         *)
(***************************************************************************)
\* for job := range p.tasksCh, then p.runner.Run(ctx, ...) is entered.  The
\* workers are identical goroutines blocked on the same channel: which of
\* the idle ones the runtime wakes is immaterial, and the model takes the
\* one of lowest index.
WorkerReceive(w) ==
    /\ proc = "up"
    /\ wk[w].pc = "idle"
    /\ \A v \in Workers : wk[v].pc = "idle" => w <= v
    /\ tasksCh # <<>>
    /\ wk' = [wk EXCEPT ![w] = [IdleWorker EXCEPT !.pc = "run", !.job = Head(tasksCh),
                                                  !.ctx = WorkerCtx]]
    /\ tasksCh' = Tail(tasksCh)
    /\ UNCHANGED <<proc, subMsg, dispJob, rg, ran>>
    /\ UNCHANGED <<queueVars, rlVars, gateVars, otherVars>>

\* domain.JobResult{Output, Error}: the result goroutine reads whether Error
\* is nil.
JobResult(res) == IF res = "ok" THEN "ok" ELSE "error"

\* A result goroutine that acknowledges as soon as it has the result.
AfterResultAckFirst(res) == "ack"

\* The result goroutine once result := <-ch returned: it logs the result and
\* goes on to Broadcast.
AfterResult(res) == "bcast"

\* job.ResultCh is unbuffered: the worker's send and the result goroutine's
\* receive (result := <-ch) are one step.
WorkerSend(w) ==
    /\ wk[w].pc = "send"
    /\ rg[wk[w].job.id].pc = "recv"
    /\ rg' = [rg EXCEPT ![wk[w].job.id].pc = AfterResult(JobResult(wk[w].res)),
                          ![wk[w].job.id].res = JobResult(wk[w].res)]
    /\ wk' = [wk EXCEPT ![w] = IdleWorker]
    /\ UNCHANGED <<proc, subMsg, dispJob, tasksCh, ran>>
    /\ UNCHANGED <<queueVars, rlVars, gateVars, otherVars>>

\* The message the result goroutine hands to Broadcast: the job id and the
\* output, which is "Error: ..." when Run returned an error.
ResultFrame(j, res) == [job_id |-> j, output |-> IF res = "ok" THEN "output" ELSE "Error"]

\* RedisQueue.Broadcast: PUBLISH on goxec:logs; an error is only logged.
Broadcast(b, frame, ok) == IF ok THEN Append(b, frame) ELSE b

\* A result goroutine that gives up when Broadcast fails.
AfterBroadcastStrict(ok) == IF ok THEN "ack" ELSE "done"

\* Where the result goroutine goes after Broadcast returned: the error is
\* logged and the goroutine falls through to Acknowledge.
AfterBroadcast(ok) == "ack"

ResultBroadcast(j) ==
    /\ rg[j].pc = "bcast"
    /\ \E ok \in BOOLEAN :
         /\ bus' = Broadcast(bus, ResultFrame(j, rg[j].res), ok)
         /\ rg' = [rg EXCEPT ![j].pc = AfterBroadcast(ok),
                             ![j].bc = IF ok THEN "ok" ELSE "error"]
    /\ UNCHANGED <<stream, group, pel, acked, dlq, recClaimed>>
    /\ UNCHANGED <<proc, subMsg, dispJob, tasksCh, wk, ran>>
    /\ UNCHANGED <<rlVars, gateVars, otherVars>>

\* XACK: removes the entry from the pending list if it is there; XACK of an
\* entry that is not pending changes nothing and is no error.
XAck(p, e) == [x \in DOMAIN p \ {e} |-> p[x]]
XAckBy(a, p, e, who) == IF e \in DOMAIN p THEN (e :> who) @@ a ELSE a

\* RedisQueue.Acknowledge(j.RawID); an error is only logged.
Acknowledge(e, ok, who) ==
    /\ pel' = IF ok THEN XAck(pel, e) ELSE pel
    /\ acked' = IF ok THEN XAckBy(acked, pel, e, who) ELSE acked

\* A result goroutine that acknowledges only after a successful run.
AcksOnlySuccess(res) == res = "ok"

\* The result goroutine acknowledges whatever the result was ("Ack failure
\* scenarios to prevent infinite redelivery").
AcksResult(res) == TRUE

ResultAcknowledge(j) ==
    /\ rg[j].pc = "ack"
    /\ IF AcksResult(rg[j].res)
       THEN \E ok \in BOOLEAN :
              /\ Acknowledge(rg[j].job.raw, ok, "worker")
              /\ rg' = [rg EXCEPT ![j].pc = "done", ![j].ack = IF ok THEN "ok" ELSE "error"]
       ELSE /\ rg' = [rg EXCEPT ![j].pc = "done"]
            /\ UNCHANGED <<pel, acked>>
    /\ UNCHANGED <<stream, group, dlq, recClaimed, bus>>
    /\ UNCHANGED <<proc, subMsg, dispJob, tasksCh, wk, ran>>
    /\ UNCHANGED <<rlVars, gateVars, otherVars>>

(***************************************************************************)
(* StartRecoveryRoutine (internal/platform/queue/redis.go), and the idle   *)
(* time of pending entries.                                                *)
(***************************************************************************)
\* A pending entry has been idle for longer than maxAge.
GoStale(e) ==
    /\ e \in DOMAIN pel
    /\ ~pel[e].stale
    /\ pel' = [pel EXCEPT ![e].stale = TRUE]
    /\ UNCHANGED <<stream, group, acked, dlq, recClaimed, bus>>
    /\ UNCHANGED <<workerVars, rlVars, gateVars, otherVars>>

\* XAUTOCLAIM(MinIdle maxAge, Start "-", Count 10, Consumer recovery-agent):
\* every stale pending entry moves to recovery-agent, its delivery count
\* goes up by one and its idle time restarts.
Stale(p) == {e \in DOMAIN p : p[e].stale}
XAutoClaim(p) ==
    [e \in DOMAIN p |->
        IF p[e].stale
        THEN [p[e] EXCEPT !.owner = "recovery", !.count = Min(@ + 1, MaxDeliveries),
                          !.stale = FALSE]
        ELSE p[e]]

RecoveryClaim ==
    /\ recClaimed = {}
    /\ Stale(pel) # {}
    /\ recClaimed' = Stale(pel)
    /\ pel' = XAutoClaim(pel)
    /\ UNCHANGED <<stream, group, acked, dlq, bus>>
    /\ UNCHANGED <<workerVars, rlVars, gateVars, otherVars>>

\* What the routine does with a claimed message: r.client.XAck(...), its
\* result ignored.  Nothing is written to the dead-letter sink and nothing
\* is handed to a worker.
RecoveryHandle(e, ok) ==
    /\ Acknowledge(e, ok, "recovery")
    /\ UNCHANGED dlq

RecoveryAck(e) ==
    /\ e \in recClaimed
    /\ \E ok \in BOOLEAN : RecoveryHandle(e, ok)
    /\ recClaimed' = recClaimed \ {e}
    /\ UNCHANGED <<stream, group, bus>>
    /\ UNCHANGED <<workerVars, rlVars, gateVars, otherVars>>

(***************************************************************************)
(* Specifications.                                                         *)
(***************************************************************************)
EmptyMap == [x \in {} |-> NoState]

(***************************************************************************)
(* The key RateLimitMiddleware hands to Allow.  r.RemoteAddr is            *)
(* "host:port"; X-Forwarded-For is whatever the client put in the request. *)
(* Two request sequences of one remote host are followed side by side:     *)
(* request by request the same instant and the same remote address, each   *)
(* sequence with its own header, each against its own limiter.             *)
(***************************************************************************)
\* r.Header.Get("X-Forwarded-For") of a request without the header.
NoHeader == ""
Forwarded == {NoHeader, "x1"}
Ports == {1, 2}
RemoteHost == "a1"

\* ip := r.RemoteAddr; a non-empty X-Forwarded-For replaces it whole;
\* otherwise strings.Split(ip, ":")[0] drops the port.
LimiterKey(remote, fwd) == IF fwd # NoHeader THEN fwd ELSE remote.host

\* if !rl.Allow(ip) { 429 } else { next(w, r) }
Verdict(ok) == IF ok THEN "admit" ELSE "deny"

\* No request served: both limiters as NewRateLimiter left them.
NoRequests == [left |-> EmptyMap, right |-> EmptyMap, ok |-> <<"none", "none">>,
               at |-> 0, admits |-> 0]

\* One request of each sequence.  `admits` counts the requests of the left
\* sequence admitted at the current clock reading, followed up to one past
\* the whole tokens a bucket can hold.
MiddlewareRequest ==
    /\ \E port \in Ports, fl \in Forwarded, fr \in Forwarded :
         LET remote == [host |-> RemoteHost, port |-> port]
             kl == LimiterKey(remote, fl)
             kr == LimiterKey(remote, fr)
             okl == AllowResult(hdr.left, kl, now)
             okr == AllowResult(hdr.right, kr, now)
             before == IF hdr.at = now THEN hdr.admits ELSE 0
         IN  hdr' = [left |-> AllowMap(hdr.left, kl, now),
                     right |-> AllowMap(hdr.right, kr, now),
                     ok |-> <<Verdict(okl), Verdict(okr)>>,
                     at |-> now,
                     admits |-> Min(before + (IF okl THEN 1 ELSE 0),
                                    (capacity \div OneToken) + 1)]
    /\ UNCHANGED <<rlVars, gateVars, queueVars, workerVars>>
    /\ UNCHANGED <<poolVars, hubVars, bufVars, subVars, gcVars, selVars, lkVars>>

\* cleanupVisitors, one pass over the map of each limiter.
Kept(cl, t) == [ip \in {a \in DOMAIN cl : ~Expired(cl[a], t)} |-> cl[ip]]
MiddlewareCleanup ==
    /\ now - lastCleanup >= cleanupInterval
    /\ lastCleanup' = now
    /\ hdr' = [hdr EXCEPT !.left = Kept(@, now), !.right = Kept(@, now)]
    /\ UNCHANGED <<rate, capacity, clients, now, advances, lastState, lastAllow, burst>>
    /\ UNCHANGED <<gateVars, queueVars, workerVars>>
    /\ UNCHANGED <<poolVars, hubVars, bufVars, subVars, gcVars, selVars, lkVars>>

InitLimiter(r, c) ==
    /\ rate = r
    /\ capacity = c
    /\ clients = EmptyMap
    /\ now = 0
    /\ advances = 0
    /\ lastCleanup = 0
    /\ lastState = [a \in Addrs |-> NoState]
    /\ lastAllow = NoAllow
    /\ burst = NoBurst

\* Client.Run, step 6: two empty buffers of the same limit.
InitBuffers(limit) ==
    /\ logLimit = limit
    /\ stdoutBuf = EmptyBuffer
    /\ stderrBuf = EmptyBuffer
    /\ dropped = NothingDropped

InitPipelineOf(jobs, entries) ==
    /\ issued = {}
    /\ stream = <<>>
    /\ group = [exists |-> FALSE, last |-> 0]
    /\ pel = [x \in {} |-> 0]
    /\ acked = [x \in {} |-> 0]
    /\ dlq = {}
    /\ recClaimed = {}
    /\ bus = <<>>
    /\ proc = "down"
    /\ subMsg = NoJob
    /\ dispJob = NoJob
    /\ tasksCh = <<>>
    /\ wk = [w \in Workers |-> IdleWorker]
    /\ rg = [j \in jobs |-> NoGoroutine]
    /\ ran = [e \in entries |-> 0]
    /\ lastResp = NoResp
    /\ pool = NoPool
    /\ hub = [x \in {} |-> 0]
    /\ sess = [c \in Conns |-> NoSession]
    /\ gate = IdleGate
    /\ subCtl = NoSubscriber
    /\ gc = NoCalls
    /\ sel = NoSelects
    /\ lk = NoLocks
    /\ hdr = NoRequests

InitPipeline == InitPipelineOf(JobIds, EntryIds)

\* cmd/server/main.go: web.NewRateLimiter(0.5, 5.0)
Init ==
    /\ InitLimiter(DefaultRate, DefaultCapacity)
    /\ InitPipeline
    /\ InitBuffers(maxLogSize)

Next ==
    \/ SubmitRequest
    \/ WorkerBoot
    \/ WorkerCrash
    \/ SubscribeRead
    \/ DispatchReceive
    \/ DispatchSubmit
    \/ \E w \in Workers : WorkerReceive(w)
    \/ \E w \in Workers : RunCreate(w)
    \/ \E w \in Workers : RunFinish(w)
    \/ \E w \in Workers : WorkerSend(w)
    \/ \E j \in JobIds : ResultBroadcast(j)
    \/ \E j \in JobIds : ResultAcknowledge(j)
    \/ \E e \in EntryIds : GoStale(e)
    \/ RecoveryClaim
    \/ \E e \in EntryIds : RecoveryAck(e)

Spec == Init /\ [][Next]_vars

\* Client.Run called by any caller, with any context.
RunCall(w) ==
    /\ wk[w].pc = "idle"
    /\ \E ctx \in CtxKinds :
         wk' = [wk EXCEPT ![w] = [IdleWorker EXCEPT !.pc = "run", !.ctx = ctx,
                                                   !.job = [id |-> MaxJobs + 1, raw |-> 1]]]
    /\ UNCHANGED <<proc, subMsg, dispJob, tasksCh, rg, ran>>
    /\ UNCHANGED <<queueVars, rlVars, gateVars, otherVars>>

RunReturn(w) ==
    /\ wk[w].pc = "send"
    /\ wk' = [wk EXCEPT ![w] = IdleWorker]
    /\ UNCHANGED <<proc, subMsg, dispJob, tasksCh, rg, ran>>
    /\ UNCHANGED <<queueVars, rlVars, gateVars, otherVars>>

NextRun ==
    \/ \E w \in Workers : RunCall(w)
    \/ \E w \in Workers : RunCreate(w)
    \/ \E w \in Workers : RunFinish(w)
    \/ \E w \in Workers : RunReturn(w)

SpecRun == Init /\ [][NextRun]_vars

\* The rate limiter alone, for any rate and capacity.
InitLimiterAny ==
    /\ \E r \in Rates, c \in Capacities : InitLimiter(r, c)
    /\ InitPipeline
    /\ InitBuffers(maxLogSize)

NextLimiter ==
    \/ AllowCall
    \/ AdvanceClock
    \/ cleanupVisitors

SpecLimiter == InitLimiterAny /\ [][NextLimiter]_vars

\* The ingress with its limiter: requests of one address, clock and reaper.
NextIngress ==
    \/ IngressRequest
    \/ cleanupVisitors
    \/ AdvanceClock
SpecIngress == InitLimiterAny /\ [][NextIngress]_vars

\* The limiter alone, the calls of the running burst being counted.
BurstCall ==
    /\ \E ip \in Addrs : Allow(ip) /\ burst' = NextBurst(ip, AllowResult(clients, ip, now))
    /\ UNCHANGED <<rate, capacity, now, advances, lastCleanup>>
    /\ UNCHANGED <<gateVars, queueVars, workerVars, otherVars>>
NextBurstStep ==
    \/ BurstCall
    \/ cleanupVisitors
    \/ AdvanceClock
SpecBurst == InitLimiterAny /\ [][NextBurstStep]_vars

(***************************************************************************)
(* The pool and one caller of it: Submit, the receive on job.ResultCh,     *)
(* Stop.  The caller is one goroutine: it is inside at most one call, and  *)
(* calls Stop after its last Submit has returned.  `dispJob` is the job    *)
(* the caller holds while inside Submit.                                   *)
(***************************************************************************)
MaxSubmits == 7      \* Submit calls followed: workers + buffer + one blocked

\* The caller enters Submit(job).
PoolSubmitCall ==
    /\ proc = "up"
    /\ pool.stop = "none"
    /\ dispJob = NoJob
    /\ pool.accepted < MaxSubmits
    /\ dispJob' = [id |-> pool.accepted + 1, raw |-> 0]
    /\ UNCHANGED <<proc, subMsg, tasksCh, wk, rg, ran, pool>>
    /\ UNCHANGED <<queueVars, rlVars, gateVars, hubVars, bufVars, subVars, gcVars, selVars, lkVars, hdrVars>>

\* p.tasksCh <- job completes and Submit returns.
PoolSubmitReturn ==
    /\ proc = "up"
    /\ dispJob # NoJob
    /\ CanSend(tasksCh)
    /\ tasksCh' = Submit(tasksCh, dispJob)
    /\ dispJob' = NoJob
    /\ pool' = [pool EXCEPT !.accepted = @ + 1]
    /\ UNCHANGED <<proc, subMsg, wk, rg, ran>>
    /\ UNCHANGED <<queueVars, rlVars, gateVars, hubVars, bufVars, subVars, gcVars, selVars, lkVars, hdrVars>>

\* job.ResultCh <- JobResult{...}: the caller's side receives the result and
\* the worker goes back to its range over tasksCh.
PoolResult(w) ==
    /\ wk[w].pc = "send"
    /\ pool' = [pool EXCEPT !.delivered = @ \cup {wk[w].job.id}]
    /\ wk' = [wk EXCEPT ![w] = IdleWorker]
    /\ UNCHANGED <<proc, subMsg, dispJob, tasksCh, rg, ran>>
    /\ UNCHANGED <<queueVars, rlVars, gateVars, hubVars, bufVars, subVars, gcVars, selVars, lkVars, hdrVars>>

\* The range, were it to end as soon as the channel is closed.
ChannelClosed(ch, closed) == closed

\* for job := range p.tasksCh ends once the channel is closed and the jobs
\* buffered in it have been received.
ChannelDrained(ch, closed) == closed /\ ch = <<>>

\* Pool.worker leaves its loop; the deferred wg.Done() runs.
WorkerExit(w) ==
    /\ wk[w].pc = "idle"
    /\ ChannelDrained(tasksCh, pool.closed)
    /\ wk' = [wk EXCEPT ![w].pc = "exited"]
    /\ UNCHANGED <<proc, subMsg, dispJob, tasksCh, rg, ran, pool>>
    /\ UNCHANGED <<queueVars, rlVars, gateVars, hubVars, bufVars, subVars, gcVars, selVars, lkVars, hdrVars>>

\* Pool.Stop: close(p.tasksCh), then p.wg.Wait().
PoolStop ==
    /\ proc = "up"
    /\ pool.stop = "none"
    /\ dispJob = NoJob
    /\ pool' = [pool EXCEPT !.closed = TRUE, !.stop = "waiting"]
    /\ UNCHANGED <<proc, subMsg, dispJob, tasksCh, wk, rg, ran>>
    /\ UNCHANGED <<queueVars, rlVars, gateVars, hubVars, bufVars, subVars, gcVars, selVars, lkVars, hdrVars>>

\* p.wg.Wait() returns once every worker has called wg.Done().
PoolStopReturn ==
    /\ pool.stop = "waiting"
    /\ \A w \in Workers : wk[w].pc = "exited"
    /\ pool' = [pool EXCEPT !.stop = "returned"]
    /\ UNCHANGED <<proc, subMsg, dispJob, tasksCh, wk, rg, ran>>
    /\ UNCHANGED <<queueVars, rlVars, gateVars, hubVars, bufVars, subVars, gcVars, selVars, lkVars, hdrVars>>

NextPool ==
    \/ WorkerBoot
    \/ PoolSubmitCall
    \/ PoolSubmitReturn
    \/ \E w \in Workers : WorkerReceive(w)
    \/ \E w \in Workers : RunCreate(w)
    \/ \E w \in Workers : RunFinish(w)
    \/ \E w \in Workers : PoolResult(w)
    \/ \E w \in Workers : WorkerExit(w)
    \/ PoolStop
    \/ PoolStopReturn
SpecPool == Init /\ [][NextPool]_vars

(***************************************************************************)
(* The session gate (cmd/server/main.go): handleWS registers a connection  *)
(* under the job_id of its query string, broadcastLogs forwards each       *)
(* message of goxec:logs to the connection registered under its job_id.    *)
(***************************************************************************)
MaxBus == 3          \* messages published on goxec:logs by the bus harness

\* The job_ids sessions ask for and results are published under: the first
\* id handleSubmit issues and one other.
SessionJobs == {MaxJobs + 1, MaxJobs + 2}

\* conn, exists := clientHub[msg.JobID], were any registered connection taken.
HubLookupAny(h, j) == IF DOMAIN h = {} THEN 0 ELSE h[CHOOSE k \in DOMAIN h : TRUE]

\* conn, exists := clientHub[msg.JobID]; 0 stands for "does not exist".
HubLookup(h, j) == IF j \in DOMAIN h THEN h[j] ELSE 0

\* clientHub[jobID] = conn
HubSet(h, j, c) == [k \in DOMAIN h \cup {j} |-> IF k = j THEN c ELSE h[k]]

\* delete(clientHub, jobID)
HubDelete(h, j) == [k \in DOMAIN h \ {j} |-> h[k]]

\* handleWS up to the registration: a new connection (the next unused one)
\* is upgraded and stored under its job_id, replacing any stored before.
handleWS(c, j) ==
    /\ sess[c] = NoSession
    /\ \A d \in Conns : sess[d] = NoSession => c <= d
    /\ sess' = [sess EXCEPT ![c] = [job |-> j, open |-> TRUE, recv |-> {}]]
    /\ hub' = HubSet(hub, j, c)
    /\ UNCHANGED <<gate, poolVars, bufVars, subVars, gcVars, selVars, lkVars, hdrVars>>
    /\ UNCHANGED <<rlVars, gateVars, queueVars, workerVars>>

\* The client goes away: ReadMessage fails, the loop of handleWS ends and
\* the deferred function deletes the job_id's entry and closes the connection.
SessionDisconnect(c) ==
    /\ sess[c].open
    /\ sess' = [sess EXCEPT ![c].open = FALSE]
    /\ hub' = HubDelete(hub, sess[c].job)
    /\ UNCHANGED <<gate, poolVars, bufVars, subVars, gcVars, selVars, lkVars, hdrVars>>
    /\ UNCHANGED <<rlVars, gateVars, queueVars, workerVars>>

\* broadcastLogs takes the next message and looks its job_id up under the
\* read lock; a message no connection is registered for is dropped.
GateReceive ==
    /\ gate.pc = "recv"
    /\ gate.next <= Len(bus)
    /\ LET msg == bus[gate.next]
           conn == HubLookup(hub, msg.job_id)
       IN  gate' = IF conn # 0
                   THEN [pc |-> "write", next |-> gate.next, msg |-> msg, conn |-> conn]
                   ELSE [IdleGate EXCEPT !.next = gate.next + 1]
    /\ UNCHANGED <<hub, sess, poolVars, bufVars, subVars, gcVars, selVars, lkVars, hdrVars>>
    /\ UNCHANGED <<rlVars, gateVars, queueVars, workerVars>>

\* conn.WriteJSON(msg), outside the lock: the frame reaches the client if
\* the connection is still open; an error is only logged.
GateWrite ==
    /\ gate.pc = "write"
    /\ sess' = IF sess[gate.conn].open
               THEN [sess EXCEPT ![gate.conn].recv = @ \cup {gate.msg.job_id}]
               ELSE sess
    /\ gate' = [IdleGate EXCEPT !.next = gate.next + 1]
    /\ UNCHANGED <<hub, poolVars, bufVars, subVars, gcVars, selVars, lkVars, hdrVars>>
    /\ UNCHANGED <<rlVars, gateVars, queueVars, workerVars>>

\* A result is published on goxec:logs for some job_id.
BusPublish ==
    /\ Len(bus) < MaxBus
    /\ \E j \in SessionJobs : bus' = Broadcast(bus, ResultFrame(j, "ok"), TRUE)
    /\ UNCHANGED <<stream, group, pel, acked, dlq, recClaimed>>
    /\ UNCHANGED <<rlVars, gateVars, workerVars, otherVars>>

NextGate ==
    \/ \E c \in Conns, j \in SessionJobs : handleWS(c, j)
    \/ \E c \in Conns : SessionDisconnect(c)
    \/ GateReceive
    \/ GateWrite
    \/ BusPublish
SpecGate == Init /\ [][NextGate]_vars

\* The pipeline together with the gate: the client opens its session with
\* the job_id POST /api/run answered, the gate reads what the worker's
\* result goroutines published.
ClientOpens == \E c \in Conns, j \in issued : handleWS(c, j)
NextDelivery ==
    \/ Next
    \/ ClientOpens
    \/ \E c \in Conns : SessionDisconnect(c)
    \/ GateReceive
    \/ GateWrite
SpecDelivery == Init /\ [][NextDelivery]_vars

(***************************************************************************)
(* limitedBuffer (internal/platform/docker/client.go).  A buffer is the    *)
(* number of bytes it holds and whether the truncation marker was written. *)
(***************************************************************************)
MaxLimit == 5           \* largest limit a buffer is created with
MaxChunk == MaxLimit + 1   \* longest p of one Write call

\* Write, were the whole of p written before the marker.
WriteWhole(b, limit, n) ==
    IF b.len + n > limit
    THEN [len |-> b.len + n + MarkerLen, marked |-> TRUE]
    ELSE [len |-> b.len + n, marked |-> b.marked]

\* limitedBuffer.Write(p) with len(p) = n: a p that does not fit is cut to
\* the room that is left and followed by the marker; when no room is left
\* nothing is written.
Write(b, limit, n) ==
    IF b.len + n > limit
    THEN LET remaining == limit - b.len
         IN  IF remaining > 0
             THEN [len |-> b.len + remaining + MarkerLen, marked |-> TRUE]
             ELSE b
    ELSE [len |-> b.len + n, marked |-> b.marked]

\* StdCopy hands a frame's payload to the writer of its stream.
WriteStdout ==
    /\ \E n \in 0..MaxChunk : stdoutBuf' = Write(stdoutBuf, logLimit, n)
    /\ UNCHANGED <<logLimit, stderrBuf, dropped, poolVars, hubVars, subVars, gcVars, selVars, lkVars, hdrVars>>
    /\ UNCHANGED <<rlVars, gateVars, queueVars, workerVars>>
WriteStderr ==
    /\ \E n \in 0..MaxChunk : stderrBuf' = Write(stderrBuf, logLimit, n)
    /\ UNCHANGED <<logLimit, stdoutBuf, dropped, poolVars, hubVars, subVars, gcVars, selVars, lkVars, hdrVars>>
    /\ UNCHANGED <<rlVars, gateVars, queueVars, workerVars>>

InitBufferAny ==
    /\ InitLimiter(DefaultRate, DefaultCapacity)
    /\ InitPipeline
    /\ \E l \in 0..MaxLimit : InitBuffers(l)
NextBuffer == WriteStdout \/ WriteStderr
SpecBuffer == InitBufferAny /\ [][NextBuffer]_vars

\* The n Write returns for a p of length len: the bytes of p it stored.
Stored(b, limit, len) ==
    IF b.len + len > limit
    THEN limit - b.len
    ELSE len

\* StdCopy (Client.Run, step 6) hands a frame's payload to the buffer of its
\* stream; dropped records that Write stored fewer bytes than it was handed.
CopyStdout ==
    /\ \E n \in 0..MaxChunk :
          /\ stdoutBuf' = Write(stdoutBuf, logLimit, n)
          /\ dropped' = [dropped EXCEPT !.stdout = @ \/ Stored(stdoutBuf, logLimit, n) < n]
    /\ UNCHANGED <<logLimit, stderrBuf, poolVars, hubVars, subVars, gcVars, selVars, lkVars, hdrVars>>
    /\ UNCHANGED <<rlVars, gateVars, queueVars, workerVars>>
CopyStderr ==
    /\ \E n \in 0..MaxChunk :
          /\ stderrBuf' = Write(stderrBuf, logLimit, n)
          /\ dropped' = [dropped EXCEPT !.stderr = @ \/ Stored(stderrBuf, logLimit, n) < n]
    /\ UNCHANGED <<logLimit, stdoutBuf, poolVars, hubVars, subVars, gcVars, selVars, lkVars, hdrVars>>
    /\ UNCHANGED <<rlVars, gateVars, queueVars, workerVars>>
NextCopy == CopyStdout \/ CopyStderr
SpecCopy == InitBufferAny /\ [][NextCopy]_vars

(***************************************************************************)
(* Client.Run from ContainerStart on (internal/platform/docker/client.go,  *)
(* steps 3 to 5), per call.  status, err and done say which of statusCh,   *)
(* errCh and ctx.Done() can be received from; first is the event that      *)
(* happened first, taken the case the select took.      The container, the *)
(* daemon and the context's timer run concurrently with Run's goroutine,   *)
(* so an event can happen before the goroutine reaches the select ("wait") *)
(* or while it is blocked in it ("parked").  A blocked select is completed *)
(* by the first event; a select entered with several cases ready takes any *)
(* one of them.                                                            *)
(***************************************************************************)
ExitCodes == {0, 1, 137}

\* What Run does after the select took a case: errCh with an error and
\* ctx.Done() return, statusCh goes on to ContainerLogs.
AfterSelect(case) ==
    CASE case = "errCh" -> [pc |-> "returned", res |-> "waitError"]
      [] case = "statusCh" -> [pc |-> "logs", res |-> "none"]
      [] case = "ctx.Done" -> [pc |-> "returned", res |-> "timeout"]

Take(run, case) ==
    [run EXCEPT !.taken = case, !.pc = AfterSelect(case).pc, !.res = AfterSelect(case).res]

\* The cases of the select that can proceed.
ReadyCases(run) ==
    (IF run.err THEN {"errCh"} ELSE {})
        \cup (IF run.status # NoStatus THEN {"statusCh"} ELSE {})
        \cup (IF run.done THEN {"ctx.Done"} ELSE {})

First(run, ev) == IF run.first = "none" THEN ev ELSE run.first

\* ContainerStart returned nil; ContainerWait hands back its two channels.
WaitStart(r) ==
    /\ sel[r].pc = "none"
    /\ \E ctx \in CtxKinds :
          sel' = [sel EXCEPT ![r] = [NoSelect EXCEPT !.pc = "wait", !.ctx = ctx]]
    /\ UNCHANGED <<rlVars, gateVars, queueVars, workerVars>>
    /\ UNCHANGED <<poolVars, hubVars, bufVars, subVars, gcVars, lkVars, hdrVars>>

\* The container stops and the daemon answers the wait request, which was
\* made under ctx, with the exit code.
ContainerExit(r) ==
    /\ sel[r].pc \in {"wait", "parked"}
    /\ sel[r].status = NoStatus /\ ~sel[r].err /\ ~sel[r].done
    /\ \E code \in ExitCodes :
          LET s == [sel[r] EXCEPT !.status = code, !.first = First(sel[r], "exit")]
          IN  sel' = [sel EXCEPT ![r] = IF sel[r].pc = "parked" THEN Take(s, "statusCh") ELSE s]
    /\ UNCHANGED <<rlVars, gateVars, queueVars, workerVars>>
    /\ UNCHANGED <<poolVars, hubVars, bufVars, subVars, gcVars, lkVars, hdrVars>>

\* The wait request fails; its error is sent on errCh.
DaemonError(r) ==
    /\ sel[r].pc \in {"wait", "parked"}
    /\ sel[r].status = NoStatus /\ ~sel[r].err
    /\ LET s == [sel[r] EXCEPT !.err = TRUE, !.first = First(sel[r], "daemon")]
       IN  sel' = [sel EXCEPT ![r] = IF sel[r].pc = "parked" THEN Take(s, "errCh") ELSE s]
    /\ UNCHANGED <<rlVars, gateVars, queueVars, workerVars>>
    /\ UNCHANGED <<poolVars, hubVars, bufVars, subVars, gcVars, lkVars, hdrVars>>

\* ctx is cancelled or its deadline passes.
CtxDone(r) ==
    /\ sel[r].pc \in {"wait", "parked", "logs"}
    /\ sel[r].ctx = "cancellable" /\ ~sel[r].done
    /\ LET s == [sel[r] EXCEPT !.done = TRUE, !.first = First(sel[r], "ctx")]
       IN  sel' = [sel EXCEPT ![r] = IF sel[r].pc = "parked" THEN Take(s, "ctx.Done") ELSE s]
    /\ UNCHANGED <<rlVars, gateVars, queueVars, workerVars>>
    /\ UNCHANGED <<poolVars, hubVars, bufVars, subVars, gcVars, lkVars, hdrVars>>

\* Run's goroutine reaches the select: it takes one of the ready cases, or
\* blocks when none is ready.
WaitSelect(r) ==
    /\ sel[r].pc = "wait"
    /\ IF ReadyCases(sel[r]) = {}
       THEN sel' = [sel EXCEPT ![r].pc = "parked"]
       ELSE \E case \in ReadyCases(sel[r]) : sel' = [sel EXCEPT ![r] = Take(sel[r], case)]
    /\ UNCHANGED <<rlVars, gateVars, queueVars, workerVars>>
    /\ UNCHANGED <<poolVars, hubVars, bufVars, subVars, gcVars, lkVars, hdrVars>>

\* Steps 5 and 6: ContainerLogs(ctx, ...) and StdCopy; a call under a
\* context that is done fails.
WaitLogs(r) ==
    /\ sel[r].pc = "logs"
    /\ \E res \in IF sel[r].done THEN {"logsFailed"} ELSE {"logsFailed", "demuxFailed", "ok"} :
          sel' = [sel EXCEPT ![r].pc = "returned", ![r].res = res]
    /\ UNCHANGED <<rlVars, gateVars, queueVars, workerVars>>
    /\ UNCHANGED <<poolVars, hubVars, bufVars, subVars, gcVars, lkVars, hdrVars>>

NextWait ==
    \/ \E r \in Runs : WaitStart(r)
    \/ \E r \in Runs : ContainerExit(r)
    \/ \E r \in Runs : DaemonError(r)
    \/ \E r \in Runs : CtxDone(r)
    \/ \E r \in Runs : WaitSelect(r)
    \/ \E r \in Runs : WaitLogs(r)
SpecWait == Init /\ [][NextWait]_vars

(***************************************************************************)
(* The hand-off of results (cmd/worker/main.go, internal/worker).  The     *)
(* dispatch goroutine calls pool.Submit(job) and only then starts the      *)
(* job's result goroutine, whose first statement is the receive on the     *)
(* job's unbuffered channel; a worker's send completes once that goroutine *)
(* is there.  Result goroutines are followed up to their receive.          *)
(***************************************************************************)
HandoffJobs == 1..MaxSubmits

\* The go statement, were it left out.
GoNever(g) == g

\* go func(j, ch) { result := <-ch ... }: the goroutine is at its receive.
Go(g) == [g EXCEPT !.pc = "recv"]

\* p.tasksCh <- job completes and Submit returns; the go statement has not
\* run yet.
HandoffSubmit ==
    /\ proc = "up"
    /\ dispJob # NoJob
    /\ rg[dispJob.id].pc = "none"
    /\ ~pool.closed
    /\ CanSend(tasksCh)
    /\ tasksCh' = Submit(tasksCh, dispJob)
    /\ rg' = [rg EXCEPT ![dispJob.id] = [NoGoroutine EXCEPT !.pc = "spawn", !.job = dispJob]]
    /\ pool' = [pool EXCEPT !.accepted = @ + 1]
    /\ UNCHANGED <<proc, subMsg, dispJob, wk, ran>>
    /\ UNCHANGED <<queueVars, rlVars, gateVars, hubVars, bufVars, subVars, gcVars, selVars, lkVars, hdrVars>>

\* The go statement after Submit; the dispatch goroutine goes back to its
\* range over jobsCh.
HandoffSpawn ==
    /\ proc = "up"
    /\ dispJob # NoJob
    /\ rg[dispJob.id].pc = "spawn"
    /\ rg' = [rg EXCEPT ![dispJob.id] = Go(@)]
    /\ dispJob' = NoJob
    /\ UNCHANGED <<proc, subMsg, tasksCh, wk, ran>>
    /\ UNCHANGED <<queueVars, rlVars, gateVars, otherVars>>

\* p.runner.Run(ctx, job.Code, job.Language) returns.  The worker sends
\* JobResult{output, err} whatever Run returned, so one result stands for
\* all of them here.
HandoffRun(w) ==
    /\ wk[w].pc = "run"
    /\ wk' = [wk EXCEPT ![w].pc = "send", ![w].res = "ok"]
    /\ ran' = Ran(w)
    /\ UNCHANGED <<proc, subMsg, dispJob, tasksCh, rg>>
    /\ UNCHANGED <<queueVars, rlVars, gateVars, otherVars>>

InitHandoff ==
    /\ InitLimiter(DefaultRate, DefaultCapacity)
    /\ InitPipelineOf(HandoffJobs, EntryIds)
    /\ InitBuffers(maxLogSize)
NextHandoff ==
    \/ WorkerBoot
    \/ PoolSubmitCall
    \/ HandoffSubmit
    \/ HandoffSpawn
    \/ \E w \in Workers : WorkerReceive(w)
    \/ \E w \in Workers : HandoffRun(w)
    \/ \E w \in Workers : WorkerSend(w)
SpecHandoff == InitHandoff /\ [][NextHandoff]_vars

\* The scheduler runs every runnable goroutine: the dispatch goroutine
\* reaches its go statement, a worker whose receiver is there sends.
FairHandoff ==
    /\ WF_vars(HandoffSpawn)
    /\ \A w \in Workers : WF_vars(WorkerSend(w))
SpecHandoffFair == SpecHandoff /\ FairHandoff

(***************************************************************************)
(* The locks of the rate limiter (internal/platform/web/ratelimit.go).     *)
(* lk.w is the goroutine holding rl.mu for writing, lk.rd the goroutines   *)
(* holding it for reading, lk.mu[c] the holder of Client c's mu, lk.map    *)
(* the Client each address maps to.  lk.al[g] is Allow call g, lk.rp the   *)
(* cleanupVisitors goroutine.  Every Lock, RLock and Unlock is a step.     *)
(***************************************************************************)
\* An Unlock that is left out.
UnlockForgotten(holder) == holder

\* c.mu.Unlock() / rl.mu.Unlock(): the mutex is free again.
Unlock(holder) == Free

\* Allow(ip) is called; getClient is about to take the read lock.
AllowEnter(g) ==
    /\ lk.al[g].pc = "none"
    /\ \E ip \in Addrs : lk' = [lk EXCEPT !.al[g].pc = "rlock", !.al[g].ip = ip]

\* rl.mu.RLock()
AllowRLock(g) ==
    /\ lk.al[g].pc = "rlock"
    /\ lk.w = Free
    /\ lk' = [lk EXCEPT !.rd = @ \cup {g}, !.al[g].pc = "read"]

\* c, exists := rl.clients[ip]; rl.mu.RUnlock(); if exists { return c }
AllowRUnlock(g) ==
    /\ lk.al[g].pc = "read"
    /\ LET c == lk.map[lk.al[g].ip]
       IN  lk' = [lk EXCEPT !.rd = @ \ {g},
                            !.al[g].c = c,
                            !.al[g].pc = IF c # NoBucket THEN "cmu" ELSE "wlock"]

\* rl.mu.Lock()
AllowWLock(g) ==
    /\ lk.al[g].pc = "wlock"
    /\ lk.w = Free /\ lk.rd = {}
    /\ lk' = [lk EXCEPT !.w = g, !.al[g].pc = "insert"]

\* The second look, the insert when there is still no entry, and the
\* deferred rl.mu.Unlock() as getClient returns.
AllowInsert(g) ==
    /\ lk.al[g].pc = "insert"
    /\ LET ip == lk.al[g].ip
           fresh == lk.map[ip] = NoBucket
           c == IF fresh THEN Len(lk.mu) + 1 ELSE lk.map[ip]
       IN  lk' = [lk EXCEPT !.mu = IF fresh THEN Append(@, Free) ELSE @,
                            !.map[ip] = c,
                            !.w = Unlock(@),
                            !.al[g].c = c,
                            !.al[g].pc = "cmu"]

\* c.mu.Lock() in Allow
AllowCLock(g) ==
    /\ lk.al[g].pc = "cmu"
    /\ lk.mu[lk.al[g].c] = Free
    /\ lk' = [lk EXCEPT !.mu[lk.al[g].c] = g, !.al[g].pc = "consume"]

\* Refill and consume, then the deferred c.mu.Unlock() as Allow returns.
AllowCUnlock(g) ==
    /\ lk.al[g].pc = "consume"
    /\ lk' = [lk EXCEPT !.mu[lk.al[g].c] = Unlock(@),
                        !.al[g] = [pc |-> "returned", ip |-> "none", c |-> NoBucket]]

\* The sleep of cleanupVisitors ends: rl.mu.Lock(), the range begins.
ReaperLock ==
    /\ lk.rp.pc = "sleep"
    /\ lk.w = Free /\ lk.rd = {}
    /\ lk' = [lk EXCEPT !.w = Reaper,
                        !.rp.pc = "range",
                        !.rp.todo = {a \in Addrs : lk.map[a] # NoBucket}]

\* c.mu.Lock() for the next entry of the range.
ReaperCLock ==
    /\ lk.rp.pc = "range"
    /\ \E ip \in lk.rp.todo :
          /\ lk.mu[lk.map[ip]] = Free
          /\ lk' = [lk EXCEPT !.mu[lk.map[ip]] = Reaper, !.rp.pc = "test", !.rp.ip = ip]

\* The idle test, the delete when it holds, c.mu.Unlock().
ReaperCUnlock ==
    /\ lk.rp.pc = "test"
    /\ \E idle \in BOOLEAN :
          LET ip == lk.rp.ip
          IN  lk' = [lk EXCEPT !.mu[lk.map[ip]] = Unlock(@),
                               !.map[ip] = IF idle THEN NoBucket ELSE @,
                               !.rp.todo = @ \ {ip},
                               !.rp.ip = "none",
                               !.rp.pc = "range"]

\* The range is over: rl.mu.Unlock(), back to the sleep.
ReaperUnlock ==
    /\ lk.rp.pc = "range"
    /\ lk.rp.todo = {}
    /\ lk' = [lk EXCEPT !.w = Unlock(@), !.rp.pc = "sleep"]

\* The steps of one Allow call once it has been made, and of one pass once
\* the reaper has woken.
AllowStep(g) ==
    \/ AllowRLock(g)
    \/ AllowRUnlock(g)
    \/ AllowWLock(g)
    \/ AllowInsert(g)
    \/ AllowCLock(g)
    \/ AllowCUnlock(g)
ReaperStep == ReaperCLock \/ ReaperCUnlock \/ ReaperUnlock

NextLocks ==
    /\ \/ \E g \in Lockers : AllowEnter(g)
       \/ \E g \in Lockers : AllowStep(g)
       \/ ReaperLock
       \/ ReaperStep
    /\ UNCHANGED <<rlVars, gateVars, queueVars, workerVars>>
    /\ UNCHANGED <<poolVars, hubVars, bufVars, subVars, gcVars, selVars, hdrVars>>
SpecLocks == Init /\ [][NextLocks]_vars

\* sync.Mutex and sync.RWMutex hand a lock to a goroutine that keeps waiting
\* for it (starvation mode; a waiting writer holds back new readers), and the
\* scheduler runs every runnable goroutine.
FairLocks ==
    /\ \A g \in Lockers : SF_vars(AllowStep(g) /\ UNCHANGED <<rlVars, gateVars, queueVars, workerVars, poolVars, hubVars, bufVars, subVars, gcVars, selVars, hdrVars>>)
    /\ SF_vars(ReaperStep /\ UNCHANGED <<rlVars, gateVars, queueVars, workerVars, poolVars, hubVars, bufVars, subVars, gcVars, selVars, hdrVars>>)
SpecLocksFair == SpecLocks /\ FairLocks

(***************************************************************************)
(* Shutdown of the worker process (cmd/worker/main.go).  main receives the *)
(* signal and calls cancel() (SubscribeCancel), returns, and its deferred  *)
(* pool.Stop() closes tasksCh and waits for the pool workers; the dispatch *)
(* goroutine and the listener keep running meanwhile.                      *)
(***************************************************************************)
\* The process ends: its goroutines and channels are gone, what it left in
\* the pending list stays there.
Halt ==
    /\ proc' = "down"
    /\ subMsg' = NoJob
    /\ dispJob' = NoJob
    /\ tasksCh' = <<>>
    /\ wk' = [w \in Workers |-> IdleWorker]
    /\ rg' = [j \in JobIds |-> NoGoroutine]
    /\ pel' = [e \in DOMAIN pel |-> [pel[e] EXCEPT !.lost = TRUE]]
    /\ subCtl' = NoSubscriber
    /\ pool' = NoPool
    /\ UNCHANGED <<ran, stream, group, acked, dlq, recClaimed, bus>>
    /\ UNCHANGED <<rlVars, gateVars, hubVars, bufVars, gcVars, selVars, lkVars, hdrVars>>

\* main returns after cancel(): the deferred pool.Stop() closes tasksCh and
\* enters wg.Wait().
MainStop ==
    /\ proc = "up"
    /\ subCtl.cancelled
    /\ pool.stop = "none"
    /\ pool' = [pool EXCEPT !.closed = TRUE, !.stop = "waiting"]
    /\ UNCHANGED <<queueVars, workerVars, rlVars, gateVars>>
    /\ UNCHANGED <<hubVars, bufVars, subVars, gcVars, selVars, lkVars, hdrVars>>

\* wg.Wait() returns, Stop returns, main returns: the process exits.
MainExit ==
    /\ proc = "up"
    /\ pool.stop = "waiting"
    /\ \A w \in Workers : wk[w].pc = "exited"
    /\ Halt

\* The dispatch goroutine's p.tasksCh <- job on the closed channel, whether
\* it began before or after the close: the send panics and the process dies.
SubmitPanic ==
    /\ proc = "up"
    /\ dispJob # NoJob
    /\ pool.closed
    /\ Halt

NextShutdown ==
    \/ SubmitRequest
    \/ WorkerBoot
    \/ SubscribeRead
    \/ SubscribeCancel
    \/ SubscribeReturn
    \/ DispatchReceive
    \/ DispatchSubmit
    \/ \E w \in Workers : WorkerReceive(w)
    \/ \E w \in Workers : RunCreate(w)
    \/ \E w \in Workers : RunFinish(w)
    \/ \E w \in Workers : WorkerSend(w)
    \/ \E w \in Workers : WorkerExit(w)
    \/ \E j \in JobIds : ResultBroadcast(j)
    \/ \E j \in JobIds : ResultAcknowledge(j)
    \/ MainStop
    \/ MainExit
    \/ SubmitPanic
SpecShutdown == Init /\ [][NextShutdown]_vars

(***************************************************************************)
(* getClient (internal/platform/web/ratelimit.go) called concurrently for  *)
(* one address.  gc.map is the *Client the map holds for the address,      *)
(* gc.made counts the Client values allocated, gc.heap holds them by       *)
(* identity, gc.call[r] is the position of call r and the pointer it       *)
(* returns.  Each critical section of rl.mu is one step.                   *)
(***************************************************************************)
\* The slow path without its second look at the map.
SlowPathBlind(m) ==
    [m EXCEPT !.map = m.made + 1, !.made = m.made + 1,
              !.heap = Append(m.heap, NewClient(now))]

\* The slow path under rl.mu.Lock: look again, allocate and insert only when
\* the address still has no entry.
SlowPath(m) ==
    IF m.map = NoBucket
    THEN [m EXCEPT !.map = m.made + 1, !.made = m.made + 1,
                   !.heap = Append(m.heap, NewClient(now))]
    ELSE m

\* A request enters getClient.
GetClientCall(r) ==
    /\ gc.call[r].pc = "none"
    /\ gc' = [gc EXCEPT !.call[r].pc = "rlock"]
    /\ UNCHANGED <<rlVars, gateVars, queueVars, workerVars>>
    /\ UNCHANGED <<poolVars, hubVars, bufVars, subVars, selVars, lkVars, hdrVars>>

\* The fast path: read the map under RLock, return the entry if there is one.
GetClientFast(r) ==
    /\ gc.call[r].pc = "rlock"
    /\ gc' = IF gc.map # NoBucket
             THEN [gc EXCEPT !.call[r].pc = "done", !.call[r].c = gc.map]
             ELSE [gc EXCEPT !.call[r].pc = "lock", !.call[r].missed = TRUE]
    /\ UNCHANGED <<rlVars, gateVars, queueVars, workerVars>>
    /\ UNCHANGED <<poolVars, hubVars, bufVars, subVars, selVars, lkVars, hdrVars>>

\* The slow path, from Lock to the deferred Unlock.
GetClientSlow(r) ==
    /\ gc.call[r].pc = "lock"
    /\ LET m == SlowPath(gc)
       IN  gc' = [m EXCEPT !.call[r].pc = "done", !.call[r].c = m.map]
    /\ UNCHANGED <<rlVars, gateVars, queueVars, workerVars>>
    /\ UNCHANGED <<poolVars, hubVars, bufVars, subVars, selVars, lkVars, hdrVars>>

\* Allow after getClient returned c: under c.mu, refill and consume on the
\* Client c points to, whether or not the map still holds it.
AllowLocked(r) ==
    /\ gc.call[r].pc = "done"
    /\ LET c == gc.call[r].c
           b == Refill(gc.heap[c], now)
       IN  gc' = [gc EXCEPT !.heap[c] = Consume(b),
                            !.call[r].pc = "returned",
                            !.call[r].ok = Admits(b),
                            !.call[r].at = now,
                            !.call[r].orphan = (gc.map # c)]
    /\ UNCHANGED <<rlVars, gateVars, queueVars, workerVars>>
    /\ UNCHANGED <<poolVars, hubVars, bufVars, subVars, selVars, lkVars, hdrVars>>

\* One pass of cleanupVisitors over the address, under rl.mu and c.mu.
ReapPass ==
    /\ now - lastCleanup >= cleanupInterval
    /\ lastCleanup' = now
    /\ gc' = IF gc.map # NoBucket /\ Expired(gc.heap[gc.map], now)
             THEN [gc EXCEPT !.map = NoBucket]
             ELSE gc
    /\ UNCHANGED <<rate, capacity, clients, now, advances, lastState, lastAllow, burst>>
    /\ UNCHANGED <<gateVars, queueVars, workerVars>>
    /\ UNCHANGED <<poolVars, hubVars, bufVars, subVars, selVars, lkVars, hdrVars>>

\* Concurrent Allow calls of one address, the reaper and the clock.
NextReap ==
    \/ \E r \in Calls : GetClientCall(r)
    \/ \E r \in Calls : GetClientFast(r)
    \/ \E r \in Calls : GetClientSlow(r)
    \/ \E r \in Calls : AllowLocked(r)
    \/ ReapPass
    \/ AdvanceClock
\* The limiter with the smaller of the capacities, so that the calls
\* followed outnumber the tokens of a full bucket.
InitReap ==
    /\ \E r \in Rates :
          InitLimiter(r, CHOOSE c \in Capacities : \A d \in Capacities : c <= d)
    /\ InitPipeline
    /\ InitBuffers(maxLogSize)
SpecReap == InitReap /\ [][NextReap]_vars

NextGetClient ==
    \E r \in Calls : GetClientCall(r) \/ GetClientFast(r) \/ GetClientSlow(r)
SpecGetClient == Init /\ [][NextGetClient]_vars

\* Another writer of goxec:jobs appends an entry the submit handler would
\* never write.
ForeignAdd ==
    /\ Len(stream) < MaxJobs
    /\ \E v \in Malformed : stream' = Append(stream, v)
    /\ UNCHANGED <<group, pel, acked, dlq, recClaimed, bus>>
    /\ UNCHANGED <<workerVars, rlVars, gateVars, otherVars>>
NextForeign == Next \/ ForeignAdd
SpecForeign == Init /\ [][NextForeign]_vars

\* The pipeline with the control flow of Subscribe's listener: broker
\* errors, cancellation of its context, its return.
NextSubscribe ==
    \/ Next
    \/ SubscribeReadError
    \/ SubscribeWake
    \/ SubscribeCancel
    \/ SubscribeReturn
SpecSubscribe == Init /\ [][NextSubscribe]_vars

(***************************************************************************)
(* The worker process in front of a backlog: entries are published while   *)
(* the jobs read earlier are still running.  Followed up to the hand-over  *)
(* of a result to the job's result goroutine.                              *)
(***************************************************************************)
MaxBacklog == 5      \* entries published to the stream
BacklogEntries == 1..MaxBacklog
BacklogJobs == (MaxBacklog + 1)..(2 * MaxBacklog)

BacklogPublish ==
    /\ group.exists
    /\ Len(stream) < MaxBacklog
    /\ stream' = Publish(stream, MaxBacklog + Len(stream) + 1)
    /\ UNCHANGED <<group, pel, acked, dlq, recClaimed, bus>>
    /\ UNCHANGED <<workerVars, rlVars, gateVars, otherVars>>

InitBacklog ==
    /\ InitLimiter(DefaultRate, DefaultCapacity)
    /\ InitPipelineOf(BacklogJobs, BacklogEntries)
    /\ InitBuffers(maxLogSize)
NextBacklog ==
    \/ WorkerBoot
    \/ BacklogPublish
    \/ SubscribeRead
    \/ DispatchReceive
    \/ DispatchSubmit
    \/ \E w \in Workers : WorkerReceive(w)
    \/ \E w \in Workers : RunCreate(w)
    \/ \E w \in Workers : RunFinish(w)
    \/ \E w \in Workers : WorkerSend(w)
SpecBacklog == InitBacklog /\ [][NextBacklog]_vars

\* The pipeline with the time a worker spends inside Run.
NextDeadline == Next \/ \E w \in Workers : Tick(w)
SpecDeadline == Init /\ [][NextDeadline]_vars

(***************************************************************************)
(* Properties.                                                             *)
(***************************************************************************)
\* The worker process is up and nothing of the pipeline has a step left to
\* take (only new submissions could change the state).
Quiescent ==
    /\ proc = "up"
    /\ ~ENABLED SubscribeRead
    /\ ~ENABLED DispatchReceive
    /\ ~ENABLED DispatchSubmit
    /\ \A w \in Workers : wk[w].pc = "idle"
    /\ \A j \in JobIds : rg[j].pc \in {"none", "done"}
    /\ DOMAIN pel = {}
    /\ ~ENABLED RecoveryClaim
    /\ recClaimed = {}

Published == 1..Len(stream)
AckedAfterRun == {e \in DOMAIN acked : ran[e] > 0}

\* C1 (No-loss): once the pipeline has come to rest, every published entry
\* has been acknowledged after a worker ran it, or is in the dead-letter
\* sink: acknowledged ids united with dead-letter ids are the published ids.
C1_NoLoss == Quiescent => AckedAfterRun \cup dlq = Published

EntriesOf(j) == {i \in 1..Len(stream) : stream[i] = j}

C2_OneEntryPerQueued ==
    /\ \A j \in issued : Cardinality(EntriesOf(j)) = 1
    /\ \A i \in 1..Len(stream) : stream[i] \in issued

C2_OnlySubmitAppends ==
    /\ stream' # stream =>
         \E j \in JobIds \ issued : /\ stream' = Append(stream, j)
                                    /\ issued' = issued \cup {j}
    /\ issued' # issued => stream' # stream
    /\ \A allowed \in BOOLEAN, body \in Bodies, pubOk \in BOOLEAN :
         RateLimitMiddleware(allowed, NewJobID, body, pubOk) =>
           LET r == Response(allowed, NewJobID, body, pubOk)
           IN  IF r.status = "queued"
               THEN stream' = Append(stream, r.job) /\ issued' = issued \cup {r.job}
               ELSE r.status \in {"400", "429", "500"} /\ stream' = stream /\ issued' = issued

\* C2: every request answered "queued" has appended exactly one entry that
\* carries its job id; a request answered 400, 429 or 500 adds none; and
\* the stream changes in no step other than the submit handler's Publish.
C2_SubmitAppendsOnce == [][C2_OnlySubmitAppends /\ C2_OneEntryPerQueued']_vars

C2_Witness == \E j \in issued : stream = <<j>>

\* What the client parses as the terminal frame of a job.
IsStatusFrame(f) == "status" \in DOMAIN f /\ f.status \in {"completed", "failed"}
FramesOf(j) == {i \in 1..Len(bus) : bus[i].job_id = j}
StatusFramesOf(j) == {i \in FramesOf(j) : IsStatusFrame(bus[i])}

\* C3 (Terminal frame): for every job a worker finished and whose result was
\* published, the bus holds exactly one status frame (completed or failed)
\* for that job id, and no frame for that job id comes after it.
C3_TerminalFrame ==
    \A j \in JobIds :
        rg[j].pc \in {"ack", "done"} /\ rg[j].bc = "ok" =>
            /\ Cardinality(StatusFramesOf(j)) = 1
            /\ \A s \in StatusFramesOf(j), i \in FramesOf(j) : i <= s

\* C4 (Execution deadline): a worker is never inside Runner.Run for one job
\* for longer than the job's execution deadline.
C4_ExecutionDeadline ==
    \A w \in Workers : wk[w].pc = "wait" => wk[w].elapsed <= JobDeadline

\* C5 (No-leak): when Run has returned, on whatever exit path and under
\* whatever context, a container it created has been force-removed; none is
\* left when the worker goes on to its next job.
C5_NoLeak ==
    \A w \in Workers :
        /\ wk[w].pc = "send" =>
             IF wk[w].res \in {"pullFailed", "createFailed"}
             THEN wk[w].ctr = "none"
             ELSE wk[w].ctr = "removed"
        /\ wk[w].pc \in {"idle", "run"} => wk[w].ctr = "none"

C5_Witness ==
    \E w \in Workers :
        wk[w].pc = "send" /\ wk[w].res = "timeout" /\ wk[w].ctr = "removed"

C6_StaysPendingUntilRun ==
    \A e \in DOMAIN pel :
        pel[e].lost /\ pel[e].count <= MaxRetries =>
            \/ e \in DOMAIN pel'
            \/ e \in DOMAIN acked' /\ acked'[e] = "worker" /\ ran'[e] > 0

\* C6 (Crash recovery): an entry whose worker crashed before acknowledging
\* it, and whose delivery count is at most MaxRetries, stays in the pending
\* list (also once the recovery loop has claimed it) until a live worker
\* has executed and acknowledged it.
C6_CrashRecovery == [][C6_StaysPendingUntilRun]_vars

C7_DeadLetteredBeforeAck ==
    \A e \in DOMAIN pel \ DOMAIN pel' :
        pel[e].owner = "recovery" /\ pel[e].count > MaxRetries => e \in dlq'

\* C7 (Dead-lettering): an entry the recovery loop claimed with delivery
\* count greater than MaxRetries is in the dead-letter sink by the time it
\* is acknowledged and leaves the pending list.
C7_DeadLettering == [][C7_DeadLetteredBeforeAck]_vars

\* The worker process holds no job of entry e.
NotHeld(e) ==
    /\ subMsg.raw # e
    /\ dispJob.raw # e
    /\ \A i \in 1..Len(tasksCh) : tasksCh[i].raw # e
    /\ \A w \in Workers : wk[w].job.raw # e

SoftFailed(j) == rg[j].pc = "done" /\ rg[j].res = "error"

C9_TokensInRange ==
    \A ip \in DOMAIN clients :
        clients[ip].tokens >= 0 /\ clients[ip].tokens <= capacity

C9_LastRefillMonotone ==
    \A ip \in DOMAIN clients \cap DOMAIN clients' :
        clients'[ip].lastRefill >= clients[ip].lastRefill

\* C9 (Token-bucket invariant): every bucket has 0 <= tokens <= capacity in
\* every state, and no step (an Allow call that admits, that denies, or
\* that finds no time elapsed) moves a bucket's lastRefill backwards.
C9_TokenBucket == []C9_TokensInRange /\ [][C9_LastRefillMonotone]_vars

C9_Witness ==
    /\ lastAllow.ip # "none"
    /\ ~lastAllow.ok
    /\ lastAllow.at > 0
    /\ lastAllow.had.lastRefill = lastAllow.at
    /\ clients[lastAllow.ip].tokens < OneToken

\* C10 (Admission monotonicity): an Allow call that follows a quiet period
\* of an address whose bucket was left in state (t, r) decides on exactly
\* min(capacity, t + (now - r) * rate) tokens: it admits iff that is at
\* least one token and then leaves that value less one token, whether or
\* not the reaper ran in the quiet period.
C10_AdmissionMonotonic ==
    lastAllow.ip # "none" /\ lastAllow.had # NoState =>
        LET had == lastAllow.had
            expect == Min(capacity, had.tokens + (lastAllow.at - had.lastRefill) * rate)
        IN  /\ lastAllow.seen = expect
            /\ lastAllow.ok = (expect >= OneToken)
            /\ lastState[lastAllow.ip].tokens =
                   IF expect >= OneToken THEN expect - OneToken ELSE expect

\* The whole tokens the address of the running burst is entitled to at its
\* first call: a full bucket for an address never seen, else what the bucket
\* it had been left with has refilled to.
BurstWhole ==
    (IF burst.had = NoState
     THEN capacity
     ELSE Min(capacity, burst.had.tokens + (burst.at - burst.had.lastRefill) * rate))
        \div OneToken

\* C11 (Burst admission): of the back-to-back requests of an address never
\* seen before, exactly the first C are admitted; and of those that follow a
\* quiet period of Delta seconds after the bucket was drained to zero,
\* exactly the first min(floor(Delta * rate), C).
C11_BurstAdmission ==
    burst.ip # "none" /\ (burst.had = NoState \/ burst.had.tokens = 0) =>
        burst.admits = Min(burst.calls, BurstWhole)

C12_DeniedResponse ==
    lastResp.status # "none" => (lastResp.status = "429" <=> ~lastAllow.ok)
C12_DeniedStep ==
    IngressRequest /\ ~lastAllow'.ok =>
        /\ lastResp'.status = "429"
        /\ stream' = stream
        /\ issued' = issued
        /\ RemoteAddr \in DOMAIN clients
        /\ clients'[RemoteAddr].tokens = lastAllow'.seen
        /\ clients'[RemoteAddr].tokens >= clients[RemoteAddr].tokens

\* C12 (Admission denial): a request answers 429 exactly when Allow returned
\* false; such a request does not reach the wrapped handler, appends no entry
\* to the stream, and leaves the bucket with the tokens Allow decided on, which
\* are no fewer than the bucket held before the call.
C12_AdmissionDenial == [][C12_DeniedStep /\ C12_DeniedResponse']_vars
C12_Witness ==
    /\ lastResp.status = "429"
    /\ ~lastAllow.ok
    /\ lastAllow.seen > 0
    /\ stream = <<>>

\* Workers inside Runner.Run, and containers created and not yet removed.
InRun == {w \in Workers : wk[w].pc \in {"run", "wait"}}
LiveContainers == {w \in Workers : wk[w].ctr = "created"}

C13_Bounded ==
    /\ Cardinality(InRun) <= concurrency
    /\ Cardinality(LiveContainers) <= concurrency
    /\ Len(tasksCh) <= concurrency
C13_SubmitBlocks ==
    dispJob # NoJob =>
        /\ Len(tasksCh) = concurrency => dispJob' = dispJob
        /\ dispJob' # dispJob =>
              /\ dispJob' = NoJob
              /\ tasksCh' = Append(tasksCh, dispJob)

C14_Stopped ==
    pool.stop = "returned" =>
        /\ \A w \in Workers : wk[w].pc = "exited"
        /\ pool.delivered = 1..pool.accepted
        /\ tasksCh = <<>>
C14_NothingAfterStop == pool.stop = "returned" => wk' = wk /\ tasksCh' = tasksCh

\* C14 (Graceful stop): when Stop has returned every worker goroutine has
\* exited, every job Submit accepted has been run and its result received on
\* its result channel, and nothing is left on tasksCh; after Stop has
\* returned no worker takes a step.
C14_GracefulStop == [][C14_NothingAfterStop /\ C14_Stopped']_vars
C14_Witness ==
    /\ pool.stop = "returned"
    /\ pool.accepted > concurrency
    /\ pool.delivered = 1..pool.accepted

C15_OwnFramesOnly == \A c \in Conns : sess[c].recv \subseteq {sess[c].job}
C15_Dropped ==
    /\ gate.pc = "recv"
    /\ gate' # gate
    /\ bus[gate.next].job_id \notin DOMAIN hub
    => /\ sess' = sess
       /\ gate' = [IdleGate EXCEPT !.next = gate.next + 1]

\* C15 (Fan-out isolation): a session receives only frames that carry the
\* job_id it was opened with, whatever other sessions exist; a message whose
\* job_id has no registered session is dropped: it reaches no session and
\* the gate goes on to the next message.
C15_FanOutIsolation == [][C15_Dropped /\ C15_OwnFramesOnly']_vars
C15_Witness ==
    /\ \E c, d \in Conns :
         /\ sess[c].job # sess[d].job
         /\ sess[c].recv = {sess[c].job}
         /\ sess[d].recv = {sess[d].job}
    /\ Len(bus) = MaxBus
    /\ gate.next = MaxBus + 1

\* The gate has finished with every message published so far.
GateIdle == gate.pc = "recv" /\ gate.next > Len(bus)

\* C16 (Session termination): once the gate has forwarded the final frame of
\* a job to its session and gone back to its loop, the session has been
\* closed by the server and is no longer in the table.
C16_SessionTermination ==
    \A c \in Conns :
        sess[c].recv # {} /\ GateIdle =>
            /\ ~sess[c].open
            /\ HubLookup(hub, sess[c].job) # c

\* The gate has taken the result message of job j off the bus.
GateConsumed(j) == \E i \in 1..Len(bus) : bus[i].job_id = j /\ i < gate.next

\* C19 (Status reaches the submitter): a client that was answered job_id X
\* and holds an open session for X has received the job's final frame once
\* the worker has published it, the entry is acknowledged and the gate has
\* gone through every message published, however the registration was
\* interleaved with the run and the broadcast.
C19_StatusReachesSubmitter ==
    \A c \in Conns :
        /\ sess[c].open
        /\ sess[c].job \in issued
        /\ HubLookup(hub, sess[c].job) = c
        /\ rg[sess[c].job].pc = "done"
        /\ rg[sess[c].job].bc = "ok"
        /\ GateConsumed(sess[c].job)
        /\ GateIdle
        => sess[c].job \in sess[c].recv

C17_BroadcastStep ==
    \A j \in JobIds :
        rg[j].pc = "bcast" /\ rg'[j].pc \notin {"bcast", "none"} =>
            /\ rg'[j].pc = "ack"
            /\ rg'[j].bc \in {"ok", "error"}
            /\ rg'[j].bc = "error" => bus' = bus
            /\ rg'[j].bc = "ok" => bus' = Append(bus, ResultFrame(j, rg[j].res))
            /\ pel' = pel
            /\ acked' = acked
C17_AckStep ==
    \A j \in JobIds :
        rg[j].pc = "ack" /\ rg'[j].pc \notin {"ack", "none"} =>
            /\ rg'[j].pc = "done"
            /\ rg'[j].ack \in {"ok", "error"}
            /\ rg'[j].ack = "ok" => rg[j].job.raw \notin DOMAIN pel'
            /\ bus' = bus
C17_Acked == \A j \in JobIds : rg[j].pc = "done" => rg[j].ack # "none"

\* C17 (Log bus best-effort): the result goroutine calls Broadcast once; a
\* failure publishes nothing, is not retried, and the goroutine goes on to
\* Acknowledge exactly as after a success: the Broadcast step leaves the
\* pending list alone, the next step of the goroutine is the Acknowledge
\* call, and that step publishes nothing and removes the entry whenever the
\* XACK succeeds.
C17_BestEffortBus == [][C17_BroadcastStep /\ C17_AckStep /\ C17_Acked']_vars
C17_Witness ==
    \E j \in JobIds :
        /\ rg[j].pc = "done"
        /\ rg[j].bc = "error"
        /\ rg[j].ack = "ok"
        /\ FramesOf(j) = {}
        /\ rg[j].job.raw \in DOMAIN acked
        /\ acked[rg[j].job.raw] = "worker"

\* C18 (Output bounding): whatever Write calls a buffer of limit L has
\* served, it holds at most L + len("\n<LOG TRUNCATED>") bytes; this holds
\* for the stdout buffer and for the stderr buffer separately.
C18_OutputBounded ==
    /\ stdoutBuf.len <= logLimit + MarkerLen
    /\ stderrBuf.len <= logLimit + MarkerLen
C18_Witness ==
    /\ logLimit > 0
    /\ stdoutBuf.marked
    /\ stdoutBuf.len = logLimit + MarkerLen
    /\ stderrBuf.marked
    /\ stderrBuf.len = logLimit + MarkerLen

\* Where a stream entry stands: never delivered, in the pending list (idle
\* for longer than maxAge or not, written to the dead-letter sink or not),
\* or removed from the pending list by an XACK.
EntryState(e) ==
    IF e \in DOMAIN acked THEN "GONE"
    ELSE IF e \notin DOMAIN pel THEN "NEW"
    ELSE IF e \in dlq THEN "DLQ-ACKED"
    ELSE IF pel[e].stale THEN "CLAIMABLE"
    ELSE "PENDING"

C20_Allowed(e) ==
    LET from == EntryState(e)
        to == EntryState(e)'
    IN  \/ to = from
        \/ from = "NEW" /\ to = "PENDING"
        \/ from = "PENDING" /\ to = "CLAIMABLE"
        \/ from \in {"PENDING", "CLAIMABLE"} /\ to = "GONE" /\ acked'[e] = "worker"
        \/ /\ from = "CLAIMABLE" /\ to = "PENDING"
           /\ pel[e].count <= MaxRetries
           /\ pel'[e].count = pel[e].count + 1
        \/ from = "CLAIMABLE" /\ to = "DLQ-ACKED" /\ pel[e].count > MaxRetries
        \/ from = "DLQ-ACKED" /\ to = "GONE"

\* C20 (Entry state machine): a step moves an entry only along NEW ->
\* PENDING, PENDING -> CLAIMABLE, CLAIMABLE -> PENDING with the delivery
\* count one higher (while it was within MaxRetries), CLAIMABLE -> DLQ-ACKED
\* (beyond MaxRetries), DLQ-ACKED -> GONE, or to GONE by the worker's
\* acknowledge; in particular nothing but the worker's acknowledge or the
\* dead-letter path makes an entry GONE, and a GONE entry stays GONE.
C20_EntryStateMachine == [][\A e \in EntryIds : C20_Allowed(e)]_vars

\* Steps in which Acknowledge (XACK) is called for entry e: by the result
\* goroutine of a job read from e, by the recovery routine for a claimed e.
WorkerAckCall(e) ==
    \E j \in JobIds : rg[j].job.raw = e /\ rg[j].pc = "ack" /\ rg'[j].pc = "done"
RecoveryAckCall(e) == e \in recClaimed /\ e \notin recClaimed'

\* An XACK was already issued for entry e: by a result goroutine, or by the
\* recovery routine with success.
AckCalledBefore(e) ==
    \/ \E j \in JobIds : rg[j].job.raw = e /\ rg[j].ack # "none"
    \/ e \in DOMAIN acked /\ acked[e] = "recovery"

\* C21 (Acknowledge-once): no step calls Acknowledge for a stream entry for
\* which Acknowledge was already called, be it by the worker's result
\* goroutine or by any other component.
C21_AcknowledgeOnce ==
    [][\A e \in EntryIds :
          WorkerAckCall(e) \/ RecoveryAckCall(e) => ~AckCalledBefore(e)]_vars

\* The result goroutine of job j has the result of Run, has attempted
\* Broadcast, has called Acknowledge.
HasResult(j) == rg[j].res # "none"
BroadcastAttempted(j) == rg[j].bc # "none"
AckAttempted(j) == rg[j].ack # "none"

C22_OrderInState ==
    \A j \in JobIds :
        /\ HasResult(j) => ran[rg[j].job.raw] > 0
        /\ BroadcastAttempted(j) => HasResult(j)
        /\ AckAttempted(j) => BroadcastAttempted(j)
C22_OrderInStep ==
    \A e \in EntryIds :
        /\ WorkerAckCall(e) =>
              \E j \in JobIds : rg[j].job.raw = e /\ BroadcastAttempted(j) /\ ran[e] > 0
        /\ e \in DOMAIN acked' \ DOMAIN acked /\ acked'[e] = "worker" =>
              WorkerAckCall(e)

\* C22 (Per-job step order): for every delivered job Runner.Run returns
\* before the result goroutine attempts Broadcast, and Broadcast is attempted
\* before Acknowledge is called; an entry is acknowledged by the worker only
\* in the Acknowledge step of a goroutine whose job has run and whose
\* Broadcast has been attempted.
C22_StepOrder == [][C22_OrderInStep /\ C22_OrderInState']_vars
C22_Witness ==
    \E j \in JobIds :
        /\ rg[j].pc = "done"
        /\ rg[j].res = "ok"
        /\ rg[j].bc = "ok"
        /\ rg[j].ack = "ok"
        /\ FramesOf(j) # {}
        /\ acked[rg[j].job.raw] = "worker"

\* C23 (Malformed payload): an entry whose `job` field is missing, not a
\* string or not valid JSON is never put on the job channel, and once the
\* subscriber has read and skipped it, it is acknowledged: it is not left
\* in the pending list under the worker's consumer.
C23_MalformedPayload ==
    /\ subMsg = NoJob \/ stream[subMsg.raw] \notin Malformed
    /\ \A e \in DOMAIN pel :
          pel[e].owner = "worker" => stream[e] \notin Malformed

\* The listener goroutine can take a step of its own towards its return.
ListenerCanProceed == ENABLED SubscribeWake \/ ENABLED SubscribeReturn

\* C24 (Subscribe cancellation): once the context is cancelled the listener
\* goroutine, wherever it is (also while it holds a decoded job the consumer
\* has not received), has returned and closed the job channel or can take
\* the next step towards that on its own; and the channel is closed only
\* after a cancellation.
C24_SubscribeCancellation ==
    /\ subCtl.pc = "closed" => subCtl.cancelled
    /\ subCtl.cancelled /\ subCtl.pc # "closed" => ListenerCanProceed

\* The places of the worker process that hold a job read from entry e.
Holders(e) ==
    {w \in Workers : wk[w].job.raw = e}
        \cup (IF subMsg.raw = e THEN {"listener"} ELSE {})
        \cup (IF dispJob.raw = e THEN {"dispatcher"} ELSE {})
        \cup {<<"tasksCh", i>> : i \in {k \in 1..Len(tasksCh) : tasksCh[k].raw = e}}

C25_AtMostOnce ==
    \A e \in EntryIds :
        /\ ran[e] <= 1
        /\ ran[e] <= MaxRetries + 1
        /\ Cardinality(Holders(e)) <= 1
        /\ ran[e] = 1 => \A w \in Workers : wk[w].job.raw = e => wk[w].pc = "send"
C25_DeliveredOnce ==
    \A e \in EntryIds :
        /\ subMsg'.raw = e /\ subMsg.raw # e =>
              e \notin DOMAIN pel /\ e \notin DOMAIN acked /\ ran[e] = 0
        /\ \A w \in Workers :
              wk'[w].job.raw = e /\ wk[w].job.raw # e => ran[e] = 0 /\ Holders(e) # {}

\* C25 (Duplicate executions): an entry is delivered by XReadGroup only if
\* it was never delivered before, at most one job of it exists in the worker
\* process, and Runner.Run returns for it at most once, in every run with or
\* without worker crashes and however long the job stays pending; the number
\* of executions of an entry is therefore within MaxRetries + 1.
C25_DuplicateExecutions == [][C25_DeliveredOnce /\ C25_AtMostOnce']_vars
C25_Witness ==
    \E e \in EntryIds :
        /\ ran[e] = 1
        /\ e \in DOMAIN pel
        /\ pel[e].lost
        /\ pel[e].count > 1
        /\ proc = "up"

\* Entries read from the broker that no pool worker has picked up: their
\* job is with the listener, with the dispatch goroutine or on tasksCh.
Unpicked ==
    {e \in DOMAIN pel :
        \/ subMsg.raw = e
        \/ dispJob.raw = e
        \/ \E i \in 1..Len(tasksCh) : tasksCh[i].raw = e}
IdleSlots == {w \in Workers : wk[w].pc = "idle"}

\* Nothing between the broker and the workers can move: the listener cannot
\* read or hand over, the dispatcher cannot submit, no worker can pick up.
FeedSettled ==
    /\ ~ENABLED SubscribeRead
    /\ ~ENABLED DispatchReceive
    /\ ~ENABLED DispatchSubmit
    /\ \A w \in Workers : ~ENABLED WorkerReceive(w)

\* C26 (Back-pressure bound): the entries that have been read from the
\* broker and not yet picked up by a worker number at most the idle worker
\* slots plus one (looked at whenever the hand-over chain has come to rest).
C26_BackPressure ==
    FeedSettled => Cardinality(Unpicked) <= Cardinality(IdleSlots) + 1

\* A step is a reaper pass exactly when it moves lastCleanup.
C27_ReaperPass ==
    lastCleanup' # lastCleanup =>
        /\ DOMAIN clients' =
              {ip \in DOMAIN clients : now - clients[ip].lastRefill <= visitorTimeout}
        /\ \A ip \in DOMAIN clients' : clients'[ip] = clients[ip]
C27_OnlyReaperDeletes ==
    lastCleanup' = lastCleanup =>
        /\ DOMAIN clients \subseteq DOMAIN clients'
        /\ \A ip \in DOMAIN clients' \ DOMAIN clients :
              /\ lastAllow'.ip = ip
              /\ lastAllow'.seen = capacity
              /\ lastAllow'.ok
              /\ clients'[ip] = [tokens |-> capacity - OneToken, lastRefill |-> now]

\* C27 (Reaper effect): a reaper pass deletes exactly the buckets whose
\* lastRefill is more than visitorTimeout old and leaves every other bucket
\* as it was; no other step deletes a bucket; and the request that finds its
\* address without a bucket (never seen, or deleted) decides on a bucket
\* holding `capacity` tokens.
C27_ReaperEffect == [][C27_ReaperPass /\ C27_OnlyReaperDeletes]_vars
C27_Witness ==
    /\ lastAllow.ip # "none"
    /\ lastAllow.had # NoState
    /\ lastAllow.at - lastAllow.had.lastRefill > visitorTimeout
    /\ lastAllow.had.tokens + (lastAllow.at - lastAllow.had.lastRefill) * rate < capacity
    /\ lastAllow.seen = capacity
    /\ \E ip \in DOMAIN clients \ {lastAllow.ip} : clients[ip].lastRefill < lastCleanup

\* C28 (Double-checked insert): however the first getClient calls for one
\* address interleave, at most one Client is ever allocated and inserted, the
\* map holds that one Client once any call has returned, and every call that
\* has returned holds the Client the map holds.
C28_DoubleCheckedInsert ==
    /\ gc.made <= 1
    /\ gc.map = gc.made
    /\ \A r \in Calls : gc.call[r].pc = "done" => gc.call[r].c = 1 /\ gc.map = 1
C28_Witness ==
    \E r1, r2 \in Calls :
        /\ r1 # r2
        /\ gc.call[r1].pc = "done" /\ gc.call[r1].missed
        /\ gc.call[r2].pc = "done" /\ gc.call[r2].missed
        /\ gc.call[r1].c = gc.call[r2].c
        /\ gc.made = 1

\* C29 (Truncation marker): a buffer with a positive limit that was handed a
\* byte it did not store holds the marker, and holds it as its last bytes,
\* directly after `limit` bytes of output.
C29_TruncationMarker ==
    logLimit > 0 =>
        /\ dropped.stdout => stdoutBuf.marked /\ stdoutBuf.len = logLimit + MarkerLen
        /\ dropped.stderr => stderrBuf.marked /\ stderrBuf.len = logLimit + MarkerLen

\* C30 (Wait outcome): once the select has taken a case, it is the case of
\* the event that happened first: statusCh when the container exited first,
\* errCh when the daemon's error came first, ctx.Done() when ctx ended
\* first; a ctx that ended first never leads to log capture or to the
\* wait-error failure.
C30_WaitOutcome ==
    \A r \in Runs :
        sel[r].taken # "none" =>
            /\ sel[r].first = "exit" => sel[r].taken = "statusCh"
            /\ sel[r].first = "daemon" => sel[r].taken = "errCh" /\ sel[r].res = "waitError"
            /\ sel[r].first = "ctx" => sel[r].taken = "ctx.Done" /\ sel[r].res = "timeout"

\* C31 (Entries published before the first Subscribe are not skipped): once
\* the group exists, every entry of the stream at or below the group's
\* last-delivered id has been delivered to a consumer: it is pending or was
\* pending and has been removed.
C31_EarlierEntriesDelivered ==
    group.exists =>
        \A e \in 1..Len(stream) :
            e <= group.last => e \in DOMAIN pel \/ e \in DOMAIN acked

\* C32 (Recovery never interferes with a live execution): the entry of a job
\* that a pool worker of the live process is still executing (Run has not
\* returned) is in the pending list, and Run has returned for it at most the
\* times it was executed before.
C32_LiveExecutionKept ==
    \A w \in Workers :
        proc = "up" /\ wk[w].pc \in {"run", "wait"} =>
            /\ wk[w].job.raw \in DOMAIN pel
            /\ ran[wk[w].job.raw] = 0

\* C33 (No acknowledgement without processing): every entry that has been
\* removed from the pending list had Runner.Run return for it in some worker
\* or is in the dead-letter sink.
C33_AckedWasProcessed ==
    \A e \in DOMAIN acked : ran[e] > 0 \/ e \in dlq

\* C34 (Shutdown never sends on a closed work channel): once Stop has closed
\* tasksCh the dispatch goroutine holds no job that it is submitting or yet
\* to submit, so no p.tasksCh <- job meets the closed channel.
C34_NoSendOnClosed ==
    proc = "up" /\ pool.closed => dispJob = NoJob

\* Calls of Allow admitted at clock reading t.
AdmittedAt(t) == {r \in Calls : gc.call[r].pc = "returned" /\ gc.call[r].ok /\ gc.call[r].at = t}

\* C35 (Burst bound under reaping): the calls admitted at one clock reading
\* never take more than capacity, and no call refills and consumes on a
\* Client that the map no longer holds.
C35_BurstBoundUnderReaping ==
    /\ Cardinality(AdmittedAt(now)) * OneToken <= capacity
    /\ \A r \in Calls : ~gc.call[r].orphan

\* The goroutines that are inside Allow or inside a pass.
Busy(g) == lk.al[g].pc \notin {"none", "returned"}
Holds(h) == lk.w = h \/ h \in lk.rd \/ \E c \in DOMAIN lk.mu : lk.mu[c] = h
C36_LockOrder ==
    /\ \A g \in Lockers :
          /\ (\E c \in DOMAIN lk.mu : lk.mu[c] = g) => lk.w # g /\ g \notin lk.rd
          /\ lk.al[g].pc \in {"rlock", "wlock", "cmu"} => ~Holds(g)
    /\ (\E c \in DOMAIN lk.mu : lk.mu[c] = Reaper) => lk.w = Reaper
C36_CanMove ==
    (lk.rp.pc # "sleep" \/ \E g \in Lockers : Busy(g)) =>
        ENABLED (ReaperStep \/ \E g \in Lockers : AllowStep(g))
C36_Terminates ==
    /\ \A g \in Lockers : Busy(g) ~> lk.al[g].pc = "returned"
    /\ lk.rp.pc # "sleep" ~> lk.rp.pc = "sleep"
\* C36 (Rate limiter is deadlock-free): an Allow call takes a Client's mu
\* only while it holds no part of rl.mu, and the reaper takes one only under
\* rl.mu; while any goroutine is inside Allow or a pass some goroutine can
\* step; every Allow call returns and every pass ends.
C36_DeadlockFree == []C36_LockOrder /\ []C36_CanMove /\ C36_Terminates
C36_Witness ==
    /\ lk.rp.pc = "range" /\ lk.rp.todo # {}
    /\ \E g \in Lockers : lk.al[g].pc = "consume" /\ lk.map[lk.al[g].ip] = lk.al[g].c
    /\ \E g \in Lockers : lk.al[g].pc = "wlock"

C37_OwnRegistrationOnly ==
    \A c \in Conns :
        sess[c].open /\ ~sess'[c].open =>
            hub' = IF HubLookup(hub, sess[c].job) = c
                   THEN HubDelete(hub, sess[c].job)
                   ELSE hub
\* C37 (Session table consistency): the disconnect of a session removes
\* from the table only that session's own registration: a job_id that by
\* then maps to a later session keeps its entry.
C37_SessionTableConsistency == [][C37_OwnRegistrationOnly]_vars

\* A worker whose send has no receiver yet; a Submit that cannot complete.
SendBlocked(w) == wk[w].pc = "send" /\ rg[wk[w].job.id].pc # "recv"
SubmitBlocked == dispJob # NoJob /\ rg[dispJob.id].pc = "none" /\ ~CanSend(tasksCh)
C38_OneResultPerJob ==
    \A j \in HandoffJobs :
        /\ rg[j].pc = "bcast" =>
              /\ \A w \in Workers : wk[w].job.id # j
              /\ \A i \in 1..Len(tasksCh) : tasksCh[i].id # j
        /\ Cardinality({w \in Workers : wk[w].job.id = j}) <= 1
C38_NeverAllBlocked ==
    SubmitBlocked => \A w \in Workers : ~SendBlocked(w)
C38_SendCompletes ==
    \A w \in Workers : wk[w].pc = "send" ~> wk[w].pc = "idle"
\* C38 (Result hand-off never blocks): a worker that has left Runner.Run
\* completes its send and is back at its receive on tasksCh; a job's result
\* is received once and the job is then with no worker and not on tasksCh;
\* while Submit cannot complete no worker waits for a receiver.
C38_HandoffNeverBlocks == []C38_OneResultPerJob /\ []C38_NeverAllBlocked /\ C38_SendCompletes
C38_Witness ==
    /\ SubmitBlocked
    /\ \A w \in Workers : wk[w].pc = "send" /\ rg[wk[w].job.id].pc = "recv"

\* The middleware in front of the limiter of cmd/server/main.go.
NextMiddleware ==
    \/ MiddlewareRequest
    \/ MiddlewareCleanup
    \/ AdvanceClock
SpecMiddleware == Init /\ [][NextMiddleware]_vars

\* C39 (Admission keyed by remote address only): two request sequences of
\* one remote address that differ only in X-Forwarded-For get the same
\* verdicts, and the requests of that address admitted at one clock reading
\* never take more than capacity.
C39_KeyedByRemoteAddress ==
    /\ hdr.ok[1] = hdr.ok[2]
    /\ hdr.admits * OneToken <= capacity

====
